---- MODULE Spec2Model ----
(***************************************************************************)
(* Model of the GeoPackage optimizer (optimizer.go, utils.go).             *)
(*                                                                         *)
(* One run of the program is a sequential walk through main, openDb,       *)
(* getTableNames and one of the two pipelines optimizeOWSGeopackage /      *)
(* optimizeOAFGeopackage.  Every SQL statement the program issues is one   *)
(* step; the database is modelled by what SQLite does with the statement   *)
(* (columns, rows, indexes, one open transaction).  log.Fatalf ends the    *)
(* process: an open transaction is then discarded by the engine.           *)
(***************************************************************************)
EXTENDS Integers, Sequences, FiniteSets, TLC

VARIABLES
    serviceType,   \* flag -service-type
    config,        \* flag -config (a JSON text, modelled by its decoded content)
    pc,            \* position of the process in the code
    db,            \* the package: catalog, columns, rows, indexes, statistics
    tx,            \* the open transaction (rows as they were at Begin), if any
    tableNames,    \* local of the pipelines: result of getTableNames
    ti,            \* index of the current table in the range loops
    si,            \* index in layerCfg.SQLStatements / owsConfig.Indices
    cursor,        \* rowids the open SELECT has still to deliver
    log,           \* statements issued so far ("executing query: ..." lines)
    loadOptions,   \* local of the retrying openDb: the ranked load strategies
    attempt,       \* local of the retrying openDb: index of the round
    option,        \* local of the retrying openDb: index in loadOptions
    spatialiteLoaded  \* local of the retrying openDb

\* the locals of the retrying openDb (the Windows-aware variant of utils.go)
loadVars == <<loadOptions, attempt, option, spatialiteLoaded>>

vars == <<serviceType, config, pc, db, tx, tableNames, ti, si, cursor, log, loadVars>>

---------------------------------------------------------------------------
(* Bounds of the model *)

\* largest number of rows a table of the package holds
MaxRows == 2

---------------------------------------------------------------------------
(* SQL values: NULL, TEXT, INTEGER and a geometry with its envelope *)

Null == [t |-> "null", s |-> "", i |-> 0]
Text(str) == [t |-> "text", s |-> str, i |-> 0]
Integer(n) == [t |-> "int", s |-> "", i |-> n]
Geom(x0, x1, y0, y1) == [t |-> "geom", minx |-> x0, maxx |-> x1, miny |-> y0, maxy |-> y1]

\* strings.Join(elems, sep)
RECURSIVE Join(_, _)
Join(elems, sep) ==
    IF Len(elems) = 0 THEN ""
    ELSE IF Len(elems) = 1 THEN elems[1]
    ELSE elems[1] \o sep \o Join(Tail(elems), sep)

Digit(d) == CASE d = 0 -> "0" [] d = 1 -> "1" [] d = 2 -> "2" [] d = 3 -> "3"
              [] d = 4 -> "4" [] d = 5 -> "5" [] d = 6 -> "6" [] d = 7 -> "7"
              [] d = 8 -> "8" [] d = 9 -> "9"

\* decimal form of an integer, as fmt prints an int64
RECURSIVE Itoa(_)
Itoa(n) ==
    IF n < 0 THEN "-" \o Itoa(0 - n)
    ELSE IF n < 10 THEN Digit(n)
    ELSE Itoa(n \div 10) \o Digit(n % 10)

\* fmt.Sprintf("%v", val) for the values the driver hands to Scan
Sprintv(val) ==
    CASE val.t = "text" -> val.s
      [] val.t = "int" -> Itoa(val.i)
      [] val.t = "geom" -> "[" \o Itoa(val.minx) \o " " \o Itoa(val.maxx) \o " "
                               \o Itoa(val.miny) \o " " \o Itoa(val.maxy) \o "]"
      [] OTHER -> "<nil>"

SeqToSet(s) == {s[k] : k \in 1..Len(s)}

---------------------------------------------------------------------------
(* The database engine, statement by statement.  Each operator returns    *)
(* [err, db]: err = TRUE is the error the Go helper turns into log.Fatalf *)

Ok(d) == [err |-> FALSE, db |-> d]
Err(d) == [err |-> TRUE, db |-> d]

TableExists(d, t) == t \in DOMAIN d.cols

\* the key of row r under the columns of an index; NULLs never collide
KeyOf(row, columns) == [k \in 1..Len(columns) |-> row[columns[k]]]
HasNull(key) == \E k \in 1..Len(key) : key[k].t = "null"

\* would a UNIQUE index over columns accept the rows of the table?
UniqueOk(rows, columns) ==
    \A r1, r2 \in DOMAIN rows :
        (r1 # r2 /\ ~HasNull(KeyOf(rows[r1], columns)))
            => KeyOf(rows[r1], columns) # KeyOf(rows[r2], columns)

\* every UNIQUE index of table t accepts rows
ConstraintsOk(d, t, rows) ==
    \A ix \in d.idx : (ix.tbl = t /\ ix.unique) => UniqueOk(rows, ix.columns)

\* ALTER TABLE 't' ADD 'c' <type>
AlterAdd(d, t, c) ==
    IF ~TableExists(d, t) \/ c \in d.cols[t] THEN Err(d)
    ELSE Ok([d EXCEPT !.cols[t] = @ \cup {c},
                      !.rows[t] = [r \in DOMAIN @ |->
                                     [x \in d.cols[t] \cup {c} |->
                                        IF x = c THEN Null ELSE @[r][x]]],
                      !.stats = FALSE])

\* SQL expressions the program builds: ST_MinX(col) .. ST_MaxY(col), 'lit' || col
ExprFn(fn, col) == [fn |-> fn, col |-> col, lit |-> ""]
ExprConcat(lit, col) == [fn |-> "concat", col |-> col, lit |-> lit]
SpatialFns == {"ST_MinX", "ST_MaxX", "ST_MinY", "ST_MaxY"}

Eval(e, row) ==
    LET v == row[e.col] IN
    IF e.fn = "concat"
    THEN IF v.t = "null" THEN Null ELSE Text(e.lit \o Sprintv(v))
    ELSE IF v.t # "geom" THEN Null
    ELSE CASE e.fn = "ST_MinX" -> Integer(v.minx)
           [] e.fn = "ST_MaxX" -> Integer(v.maxx)
           [] e.fn = "ST_MinY" -> Integer(v.miny)
           [] e.fn = "ST_MaxY" -> Integer(v.maxy)

\* UPDATE 't' SET 'c' = <expr>   (one statement, all rows or none)
UpdateAll(d, t, c, e) ==
    IF \/ ~TableExists(d, t)
       \/ c \notin d.cols[t]
       \/ e.col \notin d.cols[t]
       \/ (e.fn \in SpatialFns /\ ~d.spatial)
    THEN Err(d)
    ELSE LET new == [r \in DOMAIN d.rows[t] |->
                        [d.rows[t][r] EXCEPT ![c] = Eval(e, d.rows[t][r])]]
         IN IF ConstraintsOk(d, t, new)
            THEN Ok([d EXCEPT !.rows[t] = new, !.stats = FALSE])
            ELSE Err(d)

\* UPDATE 't' SET c = ? WHERE keycol = ?   (the prepared per-row update)
UpdateWhere(d, t, c, val, keycol, key) ==
    LET new == [r \in DOMAIN d.rows[t] |->
                  IF d.rows[t][r][keycol] = key /\ key.t # "null"
                  THEN [d.rows[t][r] EXCEPT ![c] = val]
                  ELSE d.rows[t][r]]
    IN IF ConstraintsOk(d, t, new)
       THEN Ok([d EXCEPT !.rows[t] = new, !.stats = FALSE])
       ELSE Err(d)

\* CREATE [UNIQUE] INDEX name ON t(columns)
CreateIndexStmt(d, name, t, columns, unique) ==
    IF \/ ~TableExists(d, t)
       \/ Len(columns) = 0
       \/ \E k \in 1..Len(columns) : columns[k] \notin d.cols[t]
       \/ \E ix \in d.idx : ix.name = name
       \/ name \in DOMAIN d.cols
       \/ (unique /\ ~UniqueOk(d.rows[t], columns))
    THEN Err(d)
    ELSE Ok([d EXCEPT !.idx = @ \cup {[name |-> name, tbl |-> t,
                                        columns |-> columns, unique |-> unique]},
                      !.stats = FALSE])

\* ANALYZE
AnalyzeStmt(d) == Ok([d EXCEPT !.stats = TRUE])

---------------------------------------------------------------------------
(* The helpers of utils.go *)

\* variant of IndexName: the columns are joined as in the column list of the
\* statement
IndexName_commaJoin(tableName, columnNames, indexName) ==
    IF indexName = ""
    THEN tableName \o "_" \o Join(columnNames, ",") \o "_index"
    ELSE indexName

\* createIndex: the name is synthesized when empty
IndexName(tableName, columnNames, indexName) ==
    IF indexName = ""
    THEN tableName \o "_" \o Join(columnNames, "_") \o "_index"
    ELSE indexName

\* variant of createIndex: the unique flag does not reach the statement
createIndex_neverUnique(d, tableName, columnNames, indexName, unique) ==
    CreateIndexStmt(d, IndexName(tableName, columnNames, indexName),
                    tableName, columnNames, FALSE)

createIndex(d, tableName, columnNames, indexName, unique) ==
    CreateIndexStmt(d, IndexName(tableName, columnNames, indexName),
                    tableName, columnNames, unique)

setColumnValue(d, tableName, columnName, value) ==
    UpdateAll(d, tableName, columnName, value)

\* variant of addColumn: a column that is already there is left alone
addColumn_ifAbsent(d, tableName, columnName) ==
    IF TableExists(d, tableName) /\ columnName \in d.cols[tableName]
    THEN Ok(d)
    ELSE AlterAdd(d, tableName, columnName)

addColumn(d, tableName, columnName) == AlterAdd(d, tableName, columnName)

\* the configured statements of the model: ALTER TABLE t ADD c, or a
\* statement the engine rejects
executeQuery(d, query) ==
    IF query.op = "addcol" THEN AlterAdd(d, query.tbl, query.col) ELSE Err(d)

analyze(d) == AnalyzeStmt(d)

\* getTableNames: select table_name from gpkg_contents, the first statement
\* that needs a connection
getTableNames(d) ==
    IF d.conn /\ d.valid THEN [err |-> FALSE, names |-> d.catalog]
    ELSE [err |-> TRUE, names |-> <<>>]

---------------------------------------------------------------------------
(* Process state *)

NoTx == [open |-> FALSE, snap |-> <<>>]

\* variant of CurTable: the loop walks the list from its end
CurTable_fromEnd == tableNames[Len(tableNames) + 1 - ti]

\* the table of the current loop iteration
CurTable == tableNames[ti]

\* one line of the statement log
Entry(op, iter, tbl, what) == [op |-> op, iter |-> iter, tbl |-> tbl, what |-> what]

\* variant of Fatal: the extent step is undone as if it were a transaction
Fatal_undoExtent(d) ==
    /\ pc' = "fatal"
    /\ db' = IF tx.open THEN [d EXCEPT !.rows = tx.snap]
             ELSE IF pc = "oaf_default"
             THEN [d EXCEPT !.rows[CurTable] =
                      [r \in DOMAIN @ |->
                          [c \in DOMAIN @[r] |->
                              IF c \in {"minx", "maxx", "miny", "maxy"} THEN Null
                              ELSE @[r][c]]]]
             ELSE d
    /\ tx' = NoTx

\* log.Fatalf: the process exits; an uncommitted transaction is discarded
Fatal(d) ==
    /\ pc' = "fatal"
    /\ db' = IF tx.open THEN [d EXCEPT !.rows = tx.snap] ELSE d
    /\ tx' = NoTx

\* variant of Call: the error is printed and the run goes on
Call_logOnly(res, entry, next) ==
    /\ log' = Append(log, entry)
    /\ db' = res.db
    /\ pc' = next
    /\ tx' = tx

\* one helper call: the statement is logged, then executed; an error is fatal
Call(res, entry, next) ==
    /\ log' = Append(log, entry)
    /\ IF res.err
       THEN Fatal(res.db)
       ELSE /\ db' = res.db
            /\ pc' = next
            /\ tx' = tx

---------------------------------------------------------------------------
(* Inputs: the package and the command line *)

\* table names of the packages considered; "a" is a prefix of "ab"
TableNames == {"a", "ab"}

\* the content of gpkg_contents, in catalog order
Catalogs == {<<>>, <<"a">>, <<"a", "ab">>, <<"ab", "a">>}

\* columns of a feature table before the run
BaseCols == {"fid", "geom", "code", "name"}

\* values of the attribute column code
CodeVals == {Null, Text(""), Text("b")}

\* values uuid.New() can return (a random source: any of them, each time)
UUIDs == {"u1", "u2", "u3"}

\* row r of table t: fid is the primary key; one row has no geometry
MkRow(t, r, code) ==
    [c \in BaseCols |->
        CASE c = "fid" -> Integer(r)
          [] c = "geom" -> IF t = "ab" /\ r = 1 THEN Null
                           ELSE Geom(r, r + 2, r + 4, r + 6)
          [] c = "code" -> code
          [] c = "name" -> Integer(r + 10)]

\* the row sets of a table when its attribute values vary: any values in
\* table "a", beside one row with an empty code in the other table
RichRows(t) ==
    IF t = "a"
    THEN UNION {{[r \in 1..n |-> MkRow(t, r, f[r])] : f \in [1..n -> CodeVals]} :
                n \in 0..MaxRows}
    ELSE {[r \in 1..1 |-> MkRow(t, r, Text(""))]}

\* the row sets of a table when only the number of rows varies
PlainRows(t) == {[r \in 1..n |-> MkRow(t, r, Text(""))] : n \in 0..MaxRows}

Tables(cat) == SeqToSet(cat)

\* how the host resolves mod_spatialite: by its name, only by the explicit
\* path "./mod_spatialite", or not at all
Hosts == {"name", "path", "none"}

Package(cat, rs) ==
    [valid |-> TRUE, catalog |-> cat,
     cols |-> [t \in Tables(cat) |-> BaseCols],
     rows |-> rs, idx |-> {}, stats |-> FALSE, spatial |-> FALSE, conn |-> FALSE,
     host |-> "name"]

\* the package on another host
OnHost(d, h) == [d EXCEPT !.host = h]

RichPackages ==
    UNION {{Package(cat, rs) :
              rs \in {f \in [Tables(cat) -> UNION {RichRows(t) : t \in Tables(cat)}] :
                        \A t \in Tables(cat) : f[t] \in RichRows(t)}} :
           cat \in Catalogs}

PlainPackages ==
    UNION {{Package(cat, rs) :
              rs \in {f \in [Tables(cat) -> UNION {PlainRows(t) : t \in Tables(cat)}] :
                        \A t \in Tables(cat) : f[t] \in PlainRows(t)}} :
           cat \in Catalogs}

\* packages with one row in every table
SmallPackages ==
    {d \in PlainPackages : \A t \in Tables(d.catalog) : DOMAIN d.rows[t] = {1}}

\* a package with three tables of one row each
ThreeTablePackage ==
    Package(<<"ab", "a", "b">>,
            [t \in {"ab", "a", "b"} |-> [r \in 1..1 |-> MkRow(t, r, Text(""))]])

\* a package with a table that gpkg_contents does not list
UnlistedPackage ==
    [Package(<<"a", "ab">>, [t \in {"a", "ab"} |-> [r \in 1..1 |-> MkRow(t, r, Text(""))]])
        EXCEPT !.catalog = <<"a">>]

\* a file that is no GeoPackage: gpkg_contents cannot be read
NoPackage ==
    [valid |-> FALSE, catalog |-> <<>>, cols |-> <<>>, rows |-> <<>>,
     idx |-> {}, stats |-> FALSE, spatial |-> FALSE, conn |-> FALSE, host |-> "name"]

\* values of -service-type that are neither "ows" nor "oaf": another
\* service, another spelling, nothing
InvalidServiceTypes == {"wfs", "OAF", ""}

\* -config: absent (""), a text json.Unmarshal rejects, or a document
NoConfig == [kind |-> "none", indices |-> <<>>, layers |-> <<>>]
Malformed == [kind |-> "malformed", indices |-> <<>>, layers |-> <<>>]
OwsJson(indices) == [kind |-> "json", indices |-> indices, layers |-> <<>>]

IndexSpec(t, columns, name, unique) ==
    [table |-> t, columns |-> columns, name |-> name, unique |-> unique]

OwsIndexLists ==
    { <<>>,
      <<IndexSpec("a", <<"code">>, "i1", FALSE)>>,
      <<IndexSpec("a", <<"code", "name">>, "i1", FALSE),
        IndexSpec("a", <<"fid">>, "i2", TRUE)>>,
      <<IndexSpec("a", <<"code">>, "i1", FALSE),
        IndexSpec("a", <<"name">>, "i1", FALSE)>>,
      <<IndexSpec("a", <<"fid">>, "i1", TRUE),
        IndexSpec("a", <<"code">>, "i2", FALSE),
        IndexSpec("a", <<"name">>, "i2", FALSE)>>,
      <<IndexSpec("a", <<"code">>, "", FALSE),
        IndexSpec("a", <<"name">>, "", FALSE)>>,
      <<IndexSpec("a", <<"name">>, "i1", FALSE),
        IndexSpec("a", <<"nocol">>, "i2", FALSE),
        IndexSpec("a", <<"code">>, "i3", FALSE)>>,
      <<IndexSpec("a", <<"code">>, "a_puuid_index", FALSE)>>,
      <<IndexSpec("a", <<"code", "name">>, "", TRUE),
        IndexSpec("a", <<"name">>, "i1", FALSE)>> }

OwsConfigs == {NoConfig, Malformed} \cup {OwsJson(l) : l \in OwsIndexLists}

\* no config, and one index
OwsCoreConfigs == {NoConfig, OwsJson(<<IndexSpec("a", <<"code">>, "i1", FALSE)>>)}

\* a document for the other service: layers, which the OWS pipeline has no
\* field for
OwsLayeredConfig ==
    [kind |-> "json", indices |-> <<>>,
     layers |-> "a" :> [fid_column |-> "", geom_column |-> ""]]

\* an optional list of a layer: nil (key absent) or a list, possibly empty
Nil == [set |-> FALSE, v |-> <<>>]
List(v) == [set |-> TRUE, v |-> v]

\* configured statements: ALTER TABLE t ADD c, and one the engine rejects
AddCol(t, c) == [op |-> "addcol", tbl |-> t, col |-> c,
                 text |-> "ALTER TABLE " \o t \o " ADD " \o c]
BadStmt == [op |-> "bad", tbl |-> "", col |-> "", text |-> "SELEC 1"]

\* one entry of "layers" as written in the JSON text ("" = key absent)
Layer(fid, geom, ext, temporal, stmts) ==
    [fid_column |-> fid, geom_column |-> geom, external_fid_columns |-> ext,
     temporal_columns |-> temporal, sql_statements |-> stmts]

\* layers that derive an external_fid
ExtLayers(t) ==
    << Layer("", "", List(<<"code">>), Nil, <<>>),
       Layer("fid", "geom", List(<<"code", "name">>), Nil, <<>>),
       Layer("", "", List(<<"name", "code">>), List(<<"name">>), <<>>),
       Layer("", "", List(<<>>), Nil, <<>>),
       Layer("", "", List(<<"code">>), List(<<"ts", "name">>),
             <<AddCol(t, "ts"), AddCol(t, "t2")>>) >>

\* further layers: no external_fid, or another identifier column
OtherLayers(t) ==
    << Layer("", "", Nil, Nil, <<>>),
       Layer("", "", Nil, List(<<"name">>), <<>>),
       Layer("", "", Nil, List(<<"t2", "ts">>), <<AddCol(t, "ts"), AddCol(t, "t2")>>),
       Layer("", "", Nil, Nil, <<AddCol(t, "ts"), BadStmt, AddCol(t, "t2")>>),
       Layer("", "", Nil, List(<<>>), <<>>),
       Layer("name", "geom", List(<<"code">>), List(<<"name">>), <<>>) >>

AllLayers(t) == ExtLayers(t) \o OtherLayers(t)

OafJson(layers) == [kind |-> "json", indices |-> <<>>, layers |-> layers]

\* every table configured alike, with an external_fid
OafExtConfigs ==
    {OafJson([t \in TableNames |-> ExtLayers(t)[k]]) : k \in 1..Len(ExtLayers("a"))}

\* no config, a layer for one table, the same layer for both
OafCoreConfigs ==
    {NoConfig, OafJson("a" :> ExtLayers("a")[5]),
     OafJson(("a" :> ExtLayers("a")[5]) @@ ("ab" :> ExtLayers("ab")[5]))}

\* no config, a malformed one, one without layers, and layers for one or
\* both tables
OafConfigs ==
    {NoConfig, Malformed, OafJson(<<>>), OafJson("ab" :> OtherLayers("ab")[1])}
    \cup {OafJson("a" :> AllLayers("a")[k]) : k \in 1..Len(AllLayers("a"))}
    \cup {OafJson(("a" :> AllLayers("a")[k]) @@ ("ab" :> l)) :
             k \in 1..Len(AllLayers("a")),
             l \in {OtherLayers("ab")[1], ExtLayers("ab")[5]}}

\* layers that name a column the table does not have: as identifier, as
\* geometry, in external_fid_columns, in temporal_columns
MissingLayers(t) ==
    << Layer("nofid", "", Nil, Nil, <<>>),
       Layer("", "nogeom", Nil, Nil, <<>>),
       Layer("", "", List(<<"code", "nocol">>), Nil, <<>>),
       Layer("", "", Nil, List(<<"name", "nocol">>), <<>>),
       Layer("nofid", "", List(<<"code">>), Nil, <<>>) >>

\* a layer with a missing column for table "a", alone or before a layer
\* for the other table
OafMissingConfigs ==
    {OafJson("a" :> MissingLayers("a")[k]) : k \in 1..Len(MissingLayers("a"))}
    \cup {OafJson(("a" :> MissingLayers("a")[k]) @@ ("ab" :> OtherLayers("ab")[1])) :
             k \in 1..Len(MissingLayers("a"))}

\* configurations for a package with an unlisted table: a layer with
\* statements for that table, beside a layer for the listed table or alone,
\* and a layer of the listed table with a statement on the unlisted one
UnlistedConfigs ==
    {OafJson(("a" :> OtherLayers("a")[1]) @@ ("ab" :> ExtLayers("ab")[5])),
     OafJson("ab" :> OtherLayers("ab")[3]),
     OafJson("a" :> Layer("", "", Nil, Nil, <<AddCol("ab", "ts")>>))}

---------------------------------------------------------------------------
(* main and the two gateway calls every run starts with *)

\* variant of main: the config is decoded before the switch
main_decodeFirst ==
    /\ pc = "main"
    /\ pc' = CASE config.kind = "malformed" -> "fatal"
               [] serviceType = "ows" -> "ows_openDb"
               [] serviceType = "oaf" -> "oaf_openDb"
               [] OTHER -> "fatal"
    /\ UNCHANGED <<loadVars, serviceType, config, db, tx, tableNames, ti, si, cursor, log>>

\* variant of main: the default branch runs the OAF pipeline
main_defaultOaf ==
    /\ pc = "main"
    /\ pc' = IF serviceType = "ows" THEN "ows_openDb" ELSE "oaf_openDb"
    /\ UNCHANGED <<loadVars, serviceType, config, db, tx, tableNames, ti, si, cursor, log>>

\* main: the switch on -service-type
main ==
    /\ pc = "main"
    /\ pc' = CASE serviceType = "ows" -> "ows_openDb"
               [] serviceType = "oaf" -> "oaf_openDb"
               [] OTHER -> "fatal"
    /\ UNCHANGED <<loadVars, serviceType, config, db, tx, tableNames, ti, si, cursor, log>>

\* registerDriver: the driver is registered with Extensions = mod_spatialite.
\* It loads the extensions of that list whenever it opens a connection and
\* refuses the connection when one of them cannot be loaded, so the handle
\* sql.Open returns works only on a host that resolves the extension by name
registerDriver(d) == d.host = "name"

\* openDb: sql.Open, then load_extension('mod_spatialite') and on error
\* load_extension('./mod_spatialite'); neither error is fatal, and the handle
\* is returned whether or not a connection can be made.  The spatial
\* functions are there exactly when the driver has loaded them
openDb ==
    /\ pc \in {"ows_openDb", "oaf_openDb"}
    /\ db' = [db EXCEPT !.conn = registerDriver(db), !.spatial = registerDriver(db)]
    /\ pc' = IF pc = "ows_openDb" THEN "ows_getTableNames" ELSE "oaf_getTableNames"
    /\ UNCHANGED <<loadVars, serviceType, config, tx, tableNames, ti, si, cursor, log>>

---------------------------------------------------------------------------
(* optimizeOWSGeopackage *)

\* variant of OwsLoop: the loop stops one table short
OwsLoop_oneShort(names, i) == IF i >= Len(names) THEN "ows_config" ELSE "ows_addPuuid"

\* where the range loop over tableNames goes from table index i
OwsLoop(names, i) == IF i > Len(names) THEN "ows_config" ELSE "ows_addPuuid"

\* variant of OWS_getTableNames: the configuration is decoded and validated
\* before the loop over the tables
OWS_getTableNames_validateFirst ==
    /\ pc = "ows_getTableNames"
    /\ LET res == getTableNames(db) IN
       /\ log' = Append(log, Entry("getTableNames", "", "gpkg_contents", ""))
       /\ IF res.err
          THEN Fatal(db) /\ UNCHANGED <<tableNames, ti>>
          ELSE /\ tableNames' = res.names
               /\ ti' = 1
               /\ pc' = IF \/ config.kind = "malformed"
                           \/ /\ config.kind = "json"
                              /\ \E i, j \in 1..Len(config.indices) :
                                    /\ i < j
                                    /\ config.indices[i].name = config.indices[j].name
                        THEN "fatal"
                        ELSE OwsLoop(res.names, 1)
               /\ UNCHANGED <<db, tx>>
    /\ UNCHANGED <<loadVars, serviceType, config, si, cursor>>

OWS_getTableNames ==
    /\ pc = "ows_getTableNames"
    /\ LET res == getTableNames(db) IN
       /\ log' = Append(log, Entry("getTableNames", "", "gpkg_contents", ""))
       /\ IF res.err
          THEN Fatal(db) /\ UNCHANGED <<tableNames, ti>>
          ELSE /\ tableNames' = res.names
               /\ ti' = 1
               /\ pc' = OwsLoop(res.names, 1)
               /\ UNCHANGED <<db, tx>>
    /\ UNCHANGED <<loadVars, serviceType, config, si, cursor>>

\* variant of OWS_addPuuid: the fuuid block comes before the backfill
OWS_addPuuid_fuuidFirst ==
    /\ pc = "ows_addPuuid"
    /\ Call(addColumn(db, CurTable, "puuid"),
            Entry("addColumn", CurTable, CurTable, "puuid"), "ows_addFuuid")
    /\ UNCHANGED <<loadVars, serviceType, config, tableNames, ti, si, cursor>>

OWS_addPuuid ==
    /\ pc = "ows_addPuuid"
    /\ Call(addColumn(db, CurTable, "puuid"),
            Entry("addColumn", CurTable, CurTable, "puuid"), "ows_query")
    /\ UNCHANGED <<loadVars, serviceType, config, tableNames, ti, si, cursor>>

\* db.Query("SELECT rowid FROM t")
OWS_query ==
    /\ pc = "ows_query"
    /\ log' = Append(log, Entry("select", CurTable, CurTable, "rowid"))
    /\ IF TableExists(db, CurTable)
       THEN /\ cursor' = DOMAIN db.rows[CurTable]
            /\ pc' = "ows_begin"
            /\ UNCHANGED <<db, tx>>
       ELSE Fatal(db) /\ UNCHANGED cursor
    /\ UNCHANGED <<loadVars, serviceType, config, tableNames, ti, si>>

\* variant of OWS_begin: the update is prepared on the connection, outside
\* of a transaction
OWS_begin_noTx ==
    /\ pc = "ows_begin"
    /\ log' = Append(log, Entry("begin", CurTable, CurTable, ""))
    /\ IF "puuid" \in db.cols[CurTable]
       THEN /\ tx' = tx
            /\ pc' = "ows_rows"
            /\ db' = db
       ELSE Fatal(db)
    /\ UNCHANGED <<loadVars, serviceType, config, tableNames, ti, si, cursor>>

\* db.Begin and tx.Prepare of the per-row update
OWS_begin ==
    /\ pc = "ows_begin"
    /\ log' = Append(log, Entry("begin", CurTable, CurTable, ""))
    /\ IF "puuid" \in db.cols[CurTable]
       THEN /\ tx' = [open |-> TRUE, snap |-> db.rows]
            /\ pc' = "ows_rows"
            /\ db' = db
       ELSE Fatal(db)
    /\ UNCHANGED <<loadVars, serviceType, config, tableNames, ti, si, cursor>>

\* UPDATE t SET puuid = ? WHERE rowid = ?
UpdateRowid(d, t, c, val, rowid) ==
    LET new == [d.rows[t] EXCEPT ![rowid][c] = val]
    IN IF ConstraintsOk(d, t, new)
       THEN Ok([d EXCEPT !.rows[t] = new, !.stats = FALSE])
       ELSE Err(d)

\* one turn of rows.Next(): Scan, uuid.New(), stmt.Exec
OWS_row ==
    /\ pc = "ows_rows"
    /\ cursor # {}
    /\ \E rowid \in cursor, newUUID \in UUIDs :
          /\ cursor' = cursor \ {rowid}
          /\ Call(UpdateRowid(db, CurTable, "puuid", Text(newUUID), rowid),
                  Entry("update", CurTable, CurTable, "puuid"), "ows_rows")
    /\ UNCHANGED <<loadVars, serviceType, config, tableNames, ti, si>>

\* Scan or Exec returns an error: tx.Rollback, log.Fatalf
OWS_rowError ==
    /\ pc = "ows_rows"
    /\ cursor # {}
    /\ Fatal(db)
    /\ UNCHANGED <<loadVars, serviceType, config, tableNames, ti, si, cursor, log>>

\* rows.Next() returns false: tx.Commit
OWS_commit ==
    /\ pc = "ows_rows"
    /\ cursor = {}
    /\ log' = Append(log, Entry("commit", CurTable, CurTable, "puuid"))
    /\ tx' = NoTx
    /\ pc' = "ows_idxPuuid"
    /\ UNCHANGED <<loadVars, serviceType, config, db, tableNames, ti, si, cursor>>

OWS_idxPuuid ==
    /\ pc = "ows_idxPuuid"
    /\ Call(createIndex(db, CurTable, <<"puuid">>, "", TRUE),
            Entry("createIndex", CurTable, CurTable, IndexName(CurTable, <<"puuid">>, "")),
            "ows_addFuuid")
    /\ UNCHANGED <<loadVars, serviceType, config, tableNames, ti, si, cursor>>

OWS_addFuuid ==
    /\ pc = "ows_addFuuid"
    /\ Call(addColumn(db, CurTable, "fuuid"),
            Entry("addColumn", CurTable, CurTable, "fuuid"), "ows_setFuuid")
    /\ UNCHANGED <<loadVars, serviceType, config, tableNames, ti, si, cursor>>

\* variant of FuuidValue: the separator is left out of the format string
FuuidValue_noDot(tableName) == ExprConcat(tableName, "puuid")

\* value := fmt.Sprintf("'%s.' || puuid", tableName)
FuuidValue(tableName) == ExprConcat(tableName \o ".", "puuid")

OWS_setFuuid ==
    /\ pc = "ows_setFuuid"
    /\ Call(setColumnValue(db, CurTable, "fuuid", FuuidValue(CurTable)),
            Entry("setColumnValue", CurTable, CurTable, "fuuid"), "ows_idxFuuid")
    /\ UNCHANGED <<loadVars, serviceType, config, tableNames, ti, si, cursor>>

OWS_idxFuuid ==
    /\ pc = "ows_idxFuuid"
    /\ Call(createIndex(db, CurTable, <<"fuuid">>, "", TRUE),
            Entry("createIndex", CurTable, CurTable, IndexName(CurTable, <<"fuuid">>, "")),
            OwsLoop(tableNames, ti + 1))
    /\ ti' = ti + 1
    /\ UNCHANGED <<loadVars, serviceType, config, tableNames, si, cursor>>

\* variant of DuplicateName: only the first name is remembered
DuplicateName_firstOnly(indices) ==
    \E j \in 2..Len(indices) : indices[1].name = indices[j].name

\* variant of DuplicateName: empty names are not remembered
DuplicateName_skipEmpty(indices) ==
    \E i, j \in 1..Len(indices) :
        i < j /\ indices[i].name = indices[j].name /\ indices[i].name # ""

\* the foundNames loop: some name occurs a second time
DuplicateName(indices) ==
    \E i, j \in 1..Len(indices) : i < j /\ indices[i].name = indices[j].name

\* after the tables: json.Unmarshal of the config, then the name check
OWS_config ==
    /\ pc = "ows_config"
    /\ pc' = CASE config.kind = "none" -> "done"
               [] config.kind = "malformed" -> "fatal"
               [] Len(config.indices) = 0 -> "done"
               [] DuplicateName(config.indices) -> "fatal"
               [] OTHER -> "ows_indices"
    /\ si' = 1
    /\ UNCHANGED <<loadVars, serviceType, config, db, tx, tableNames, ti, cursor, log>>

\* one turn of the second loop over owsConfig.Indices
OWS_index ==
    /\ pc = "ows_indices"
    /\ LET index == config.indices[si] IN
       Call(createIndex(db, index.table, index.columns, index.name, index.unique),
            Entry("createIndex", "", index.table,
                  IndexName(index.table, index.columns, index.name)),
            IF si = Len(config.indices) THEN "done" ELSE "ows_indices")
    /\ si' = si + 1
    /\ UNCHANGED <<loadVars, serviceType, config, tableNames, ti, cursor>>

optimizeOWSGeopackage ==
    \/ OWS_getTableNames \/ OWS_addPuuid \/ OWS_query \/ OWS_begin
    \/ OWS_row \/ OWS_rowError \/ OWS_commit \/ OWS_idxPuuid
    \/ OWS_addFuuid \/ OWS_setFuuid \/ OWS_idxFuuid \/ OWS_config \/ OWS_index

---------------------------------------------------------------------------
(* optimizeOAFGeopackage *)

pdokNamespace == "098c4e26-6e36-5693-bae9-df35db0bee49"

\* uuid.NewSHA1(space, data).String(): the name-based UUID, kept as the
\* term it is the digest of (a digest is taken to determine its input)
NewSHA1(space, data) == "uuid5(" \o space \o "," \o data \o ")"

\* defaults.Set on a decoded layer: the default tags of fid and geom column
SetDefaults(l) ==
    [l EXCEPT !.fid_column = IF @ = "" THEN "fid" ELSE @,
              !.geom_column = IF @ = "" THEN "geom" ELSE @]

\* variant of oafConfig: the call of defaults.Set is missing
oafConfig_noDefaults == [Layers |-> config.layers]

\* oafConfig after json.Unmarshal and defaults.Set
oafConfig == [Layers |-> [t \in DOMAIN config.layers |-> SetDefaults(config.layers[t])]]

\* variant of Lookup: the ok result is not looked at
Lookup_alwaysOk(Layers, tableName) ==
    [ok |-> TRUE,
     cfg |-> IF tableName \in DOMAIN Layers THEN Layers[tableName]
             ELSE Layer("", "", Nil, Nil, <<>>)]

\* layerCfg, ok := Layers[tableName]: a missing key yields the zero Layer
Lookup(Layers, tableName) ==
    IF tableName \in DOMAIN Layers
    THEN [ok |-> TRUE, cfg |-> Layers[tableName]]
    ELSE [ok |-> FALSE, cfg |-> Layer("", "", Nil, Nil, <<>>)]

\* the layer the current table is processed with: oafConfig.Layers[tableName],
\* or, without a config, the arguments "fid", "geom", nil of the else branch
layerCfg ==
    IF config.kind = "json"
    THEN Lookup(oafConfig.Layers, CurTable).cfg
    ELSE Layer("fid", "geom", Nil, Nil, <<>>)

\* where the range loop over tableNames goes from table index i
OafLoop(names, i) == IF i > Len(names) THEN "done" ELSE "oaf_table"

\* the step after the configured statements of a layer, and the one after
\* the external_fid block
AfterExt(l) == IF l.temporal_columns.set THEN "oaf_idxTemporal" ELSE "oaf_default"

\* variant of AfterStmts: the external_fid block is left out
AfterStmts_noExt(l) == AfterExt(l)

AfterStmts(l) == IF l.external_fid_columns.set THEN "oaf_addExt" ELSE AfterExt(l)

\* variant of OAF_getTableNames: the loop also visits the configured layers
\* that gpkg_contents does not list
OAF_getTableNames_andLayers ==
    /\ pc = "oaf_getTableNames"
    /\ LET res == getTableNames(db) IN
       /\ log' = Append(log, Entry("getTableNames", "", "gpkg_contents", ""))
       /\ IF res.err
          THEN Fatal(db) /\ UNCHANGED <<tableNames, ti>>
          ELSE /\ tableNames' = res.names \o
                     SelectSeq(<<"a", "ab">>,
                               LAMBDA t : /\ t \in DOMAIN config.layers
                                          /\ t \notin SeqToSet(res.names))
               /\ ti' = 1
               /\ pc' = "oaf_config"
               /\ UNCHANGED <<db, tx>>
    /\ UNCHANGED <<loadVars, serviceType, config, si, cursor>>

OAF_getTableNames ==
    /\ pc = "oaf_getTableNames"
    /\ LET res == getTableNames(db) IN
       /\ log' = Append(log, Entry("getTableNames", "", "gpkg_contents", ""))
       /\ IF res.err
          THEN Fatal(db) /\ UNCHANGED <<tableNames, ti>>
          ELSE /\ tableNames' = res.names
               /\ ti' = 1
               /\ pc' = "oaf_config"
               /\ UNCHANGED <<db, tx>>
    /\ UNCHANGED <<loadVars, serviceType, config, si, cursor>>

\* if config != "": json.Unmarshal and defaults.Set, then the first table
OAF_config ==
    /\ pc = "oaf_config"
    /\ pc' = IF config.kind = "malformed" THEN "fatal" ELSE OafLoop(tableNames, 1)
    /\ UNCHANGED <<loadVars, serviceType, config, db, tx, tableNames, ti, si, cursor, log>>

\* head of the loop body: a table without layer is skipped with a warning
OAF_table ==
    /\ pc = "oaf_table"
    /\ IF config.kind = "json" /\ ~Lookup(oafConfig.Layers, CurTable).ok
       THEN /\ ti' = ti + 1
            /\ pc' = OafLoop(tableNames, ti + 1)
            /\ si' = si
       ELSE /\ ti' = ti
            /\ si' = 1
            /\ pc' = IF config.kind = "none" THEN "oaf_default"
                     ELSE IF Len(layerCfg.sql_statements) > 0 THEN "oaf_stmts"
                     ELSE AfterStmts(layerCfg)
    /\ UNCHANGED <<loadVars, serviceType, config, db, tx, tableNames, cursor, log>>

\* one turn of the loop over layerCfg.SQLStatements
OAF_stmt ==
    /\ pc = "oaf_stmts"
    /\ LET stmt == layerCfg.sql_statements[si] IN
       Call(executeQuery(db, stmt),
            Entry("executeQuery", CurTable, stmt.tbl, stmt.text),
            IF si = Len(layerCfg.sql_statements) THEN AfterStmts(layerCfg)
            ELSE "oaf_stmts")
    /\ si' = IF si = Len(layerCfg.sql_statements) THEN 1 ELSE si + 1
    /\ UNCHANGED <<loadVars, serviceType, config, tableNames, ti, cursor>>

OAF_addExt ==
    /\ pc = "oaf_addExt"
    /\ Call(addColumn(db, CurTable, "external_fid"),
            Entry("addColumn", CurTable, CurTable, "external_fid"), "oaf_begin")
    /\ UNCHANGED <<loadVars, serviceType, config, tableNames, ti, si, cursor>>

\* variant of selectCols: the configured columns are not appended
selectCols_fidOnly(l) == <<l.fid_column>>

\* selectCols := append([]string{layerCfg.FidColumn}, layerCfg.ExternalFidColumns...)
selectCols(l) == <<l.fid_column>> \o l.external_fid_columns.v

\* variant of OAF_begin: query and update run on the connection, outside of
\* a transaction
OAF_begin_noTx ==
    /\ pc = "oaf_begin"
    /\ log' = Append(log, Entry("begin", CurTable, CurTable, ""))
    /\ IF SeqToSet(selectCols(layerCfg)) \subseteq db.cols[CurTable]
       THEN /\ tx' = tx
            /\ cursor' = DOMAIN db.rows[CurTable]
            /\ pc' = "oaf_rows"
            /\ db' = db
       ELSE Fatal(db) /\ UNCHANGED cursor
    /\ UNCHANGED <<loadVars, serviceType, config, tableNames, ti, si>>

\* db.Begin, tx.Query of selectCols and tx.Prepare of the per-row update
OAF_begin ==
    /\ pc = "oaf_begin"
    /\ log' = Append(log, Entry("begin", CurTable, CurTable, ""))
    /\ IF SeqToSet(selectCols(layerCfg)) \subseteq db.cols[CurTable]
       THEN /\ tx' = [open |-> TRUE, snap |-> db.rows]
            /\ cursor' = DOMAIN db.rows[CurTable]
            /\ pc' = "oaf_rows"
            /\ db' = db
       ELSE Fatal(db) /\ UNCHANGED cursor
    /\ UNCHANGED <<loadVars, serviceType, config, tableNames, ti, si>>

\* the values rows.Scan delivers for one row
Scan(row, columns) == [k \in 1..Len(columns) |-> row[columns[k]]]

\* variant of dataParts: the fid (index 0) is not skipped
dataParts_withFid(tableName, values) ==
    <<tableName>> \o [k \in 1..Len(values) |->
                        IF values[k].t = "null" THEN "" ELSE Sprintv(values[k])]

\* variant of dataParts: a nil value is printed by %v instead of contributing ""
dataParts_printNil(tableName, values) ==
    <<tableName>> \o [k \in 1..(Len(values) - 1) |-> Sprintv(values[k + 1])]

\* dataParts: the table name, then every value but the first (the fid)
dataParts(tableName, values) ==
    <<tableName>> \o [k \in 1..(Len(values) - 1) |->
                        IF values[k + 1].t = "null" THEN ""
                        ELSE Sprintv(values[k + 1])]

\* variant of dataString: the parts are joined with a separator
dataString_separated(tableName, values) == Join(dataParts(tableName, values), "|")

dataString(tableName, values) == Join(dataParts(tableName, values), "")

\* one turn of rows.Next(): Scan, NewSHA1 of dataString, updateStmt.Exec
OAF_row ==
    /\ pc = "oaf_rows"
    /\ cursor # {}
    /\ \E rowid \in cursor :
          LET values == Scan(db.rows[CurTable][rowid], selectCols(layerCfg))
              newUUID == NewSHA1(pdokNamespace, dataString(CurTable, values))
              fidValue == values[1]
          IN /\ cursor' = cursor \ {rowid}
             /\ Call(UpdateWhere(db, CurTable, "external_fid", Text(newUUID),
                                 layerCfg.fid_column, fidValue),
                     Entry("update", CurTable, CurTable, "external_fid"), "oaf_rows")
    /\ UNCHANGED <<loadVars, serviceType, config, tableNames, ti, si>>

\* Scan, Exec or rows.Err returns an error: tx.Rollback, log.Fatalf
OAF_rowError ==
    /\ pc = "oaf_rows"
    /\ cursor # {}
    /\ Fatal(db)
    /\ UNCHANGED <<loadVars, serviceType, config, tableNames, ti, si, cursor, log>>

\* rows.Next() returns false: tx.Commit
OAF_commit ==
    /\ pc = "oaf_rows"
    /\ cursor = {}
    /\ log' = Append(log, Entry("commit", CurTable, CurTable, "external_fid"))
    /\ tx' = NoTx
    /\ pc' = "oaf_idxExt"
    /\ UNCHANGED <<loadVars, serviceType, config, db, tableNames, ti, si, cursor>>

OAF_idxExt ==
    /\ pc = "oaf_idxExt"
    /\ Call(createIndex(db, CurTable, <<"external_fid">>,
                        CurTable \o "_external_fid_idx", FALSE),
            Entry("createIndex", CurTable, CurTable, CurTable \o "_external_fid_idx"),
            AfterExt(layerCfg))
    /\ UNCHANGED <<loadVars, serviceType, config, tableNames, ti, si, cursor>>

OAF_idxTemporal ==
    /\ pc = "oaf_idxTemporal"
    /\ Call(createIndex(db, CurTable, layerCfg.temporal_columns.v,
                        CurTable \o "_temporal_idx", FALSE),
            Entry("createIndex", CurTable, CurTable, CurTable \o "_temporal_idx"),
            "oaf_default")
    /\ si' = 1
    /\ UNCHANGED <<loadVars, serviceType, config, tableNames, ti, cursor>>

\* variant of spatialColumns: the temporal columns are put in front
spatialColumns_temporalFirst(fidColumn, temporalColumns) ==
    IF temporalColumns.set
    THEN temporalColumns.v \o <<fidColumn, "minx", "maxx", "miny", "maxy">>
    ELSE <<fidColumn, "minx", "maxx", "miny", "maxy">>

\* variant of spatialColumns: the identifier column is the literal "fid"
spatialColumns_literalFid(fidColumn, temporalColumns) ==
    IF temporalColumns.set
    THEN <<"fid", "minx", "maxx", "miny", "maxy">> \o temporalColumns.v
    ELSE <<"fid", "minx", "maxx", "miny", "maxy">>

\* addOAFDefaultOptimizations: the columns of the composite index
spatialColumns(fidColumn, temporalColumns) ==
    IF temporalColumns.set
    THEN <<fidColumn, "minx", "maxx", "miny", "maxy">> \o temporalColumns.v
    ELSE <<fidColumn, "minx", "maxx", "miny", "maxy">>

\* variant of DefaultCalls: maxx is filled by a copy of the minx line
DefaultCalls_copyPaste(tableName, fidColumn, geomColumn, temporalColumns) ==
    << [op |-> "addColumn", col |-> "minx", fn |-> ""],
       [op |-> "addColumn", col |-> "maxx", fn |-> ""],
       [op |-> "addColumn", col |-> "miny", fn |-> ""],
       [op |-> "addColumn", col |-> "maxy", fn |-> ""],
       [op |-> "setColumnValue", col |-> "minx", fn |-> "ST_MinX"],
       [op |-> "setColumnValue", col |-> "maxx", fn |-> "ST_MinX"],
       [op |-> "setColumnValue", col |-> "miny", fn |-> "ST_MinY"],
       [op |-> "setColumnValue", col |-> "maxy", fn |-> "ST_MaxY"],
       [op |-> "createIndex", col |-> tableName \o "_spatial_idx", fn |-> ""] >>

\* addOAFDefaultOptimizations: its nine helper calls, in program order
DefaultCalls(tableName, fidColumn, geomColumn, temporalColumns) ==
    << [op |-> "addColumn", col |-> "minx", fn |-> ""],
       [op |-> "addColumn", col |-> "maxx", fn |-> ""],
       [op |-> "addColumn", col |-> "miny", fn |-> ""],
       [op |-> "addColumn", col |-> "maxy", fn |-> ""],
       [op |-> "setColumnValue", col |-> "minx", fn |-> "ST_MinX"],
       [op |-> "setColumnValue", col |-> "maxx", fn |-> "ST_MaxX"],
       [op |-> "setColumnValue", col |-> "miny", fn |-> "ST_MinY"],
       [op |-> "setColumnValue", col |-> "maxy", fn |-> "ST_MaxY"],
       [op |-> "createIndex", col |-> tableName \o "_spatial_idx", fn |-> ""] >>

\* the call at position k of addOAFDefaultOptimizations, executed on d
DefaultCall(d, k, tableName, fidColumn, geomColumn, temporalColumns) ==
    LET c == DefaultCalls(tableName, fidColumn, geomColumn, temporalColumns)[k] IN
    CASE c.op = "addColumn" -> addColumn(d, tableName, c.col)
      [] c.op = "setColumnValue" ->
            setColumnValue(d, tableName, c.col, ExprFn(c.fn, geomColumn))
      [] c.op = "createIndex" ->
            createIndex(d, tableName, spatialColumns(fidColumn, temporalColumns),
                        c.col, FALSE)

\* variant of addOAFDefaultOptimizations: the loop body ends with it, the
\* call of analyze is missing
addOAFDefaultOptimizations_noAnalyze ==
    /\ pc = "oaf_default"
    /\ LET l == layerCfg
           calls == DefaultCalls(CurTable, l.fid_column, l.geom_column, l.temporal_columns)
       IN /\ Call(DefaultCall(db, si, CurTable, l.fid_column, l.geom_column,
                              l.temporal_columns),
                  Entry(calls[si].op, CurTable, CurTable, calls[si].col),
                  IF si = Len(calls) THEN OafLoop(tableNames, ti + 1) ELSE "oaf_default")
          /\ ti' = IF si = Len(calls) THEN ti + 1 ELSE ti
    /\ si' = si + 1
    /\ UNCHANGED <<loadVars, serviceType, config, tableNames, cursor>>

\* one helper call of addOAFDefaultOptimizations (si counts them)
addOAFDefaultOptimizations ==
    /\ pc = "oaf_default"
    /\ LET l == layerCfg
           calls == DefaultCalls(CurTable, l.fid_column, l.geom_column, l.temporal_columns)
       IN Call(DefaultCall(db, si, CurTable, l.fid_column, l.geom_column,
                           l.temporal_columns),
               Entry(calls[si].op, CurTable, CurTable, calls[si].col),
               IF si = Len(calls) THEN "oaf_analyze" ELSE "oaf_default")
    /\ si' = si + 1
    /\ UNCHANGED <<loadVars, serviceType, config, tableNames, ti, cursor>>

\* analyze(db), the last call of the loop body
OAF_analyze ==
    /\ pc = "oaf_analyze"
    /\ Call(analyze(db), Entry("analyze", CurTable, "", ""),
            OafLoop(tableNames, ti + 1))
    /\ ti' = ti + 1
    /\ UNCHANGED <<loadVars, serviceType, config, tableNames, si, cursor>>

optimizeOAFGeopackage ==
    \/ OAF_getTableNames \/ OAF_config \/ OAF_table \/ OAF_stmt \/ OAF_addExt
    \/ OAF_begin \/ OAF_row \/ OAF_rowError \/ OAF_commit \/ OAF_idxExt
    \/ OAF_idxTemporal \/ addOAFDefaultOptimizations \/ OAF_analyze

---------------------------------------------------------------------------

Init ==
    /\ pc = "main"
    /\ loadOptions = <<>>
    /\ attempt = 0
    /\ option = 0
    /\ spatialiteLoaded = FALSE
    /\ tx = NoTx
    /\ tableNames = <<>>
    /\ ti = 0
    /\ si = 0
    /\ cursor = {}
    /\ log = <<>>
    /\ \/ /\ serviceType = "ows"
          /\ \/ config \in OwsConfigs /\ db \in SmallPackages \cup {NoPackage}
             \/ config = NoConfig /\ db = ThreeTablePackage
             \/ config = OwsLayeredConfig /\ db \in SmallPackages
             \/ config \in OwsCoreConfigs /\ db \in PlainPackages
             \/ /\ config \in OwsCoreConfigs
                /\ db \in {OnHost(d, h) : d \in SmallPackages, h \in Hosts}
       \/ /\ serviceType = "oaf"
          /\ \/ config \in OafExtConfigs /\ db \in RichPackages
             \/ config \in OafConfigs /\ db \in SmallPackages \cup {NoPackage}
             \/ config \in OafCoreConfigs /\ db \in PlainPackages
             \/ config \in {NoConfig, OafJson("a" :> OtherLayers("a")[1])}
                /\ db = ThreeTablePackage
             \/ config \in OafMissingConfigs /\ db \in SmallPackages
             \/ config \in UnlistedConfigs /\ db = UnlistedPackage
             \/ /\ config \in OafConfigs
                /\ db \in {OnHost(d, h) : d \in SmallPackages, h \in Hosts}
       \/ /\ serviceType \in InvalidServiceTypes
          /\ config \in {NoConfig, Malformed}
          /\ db \in SmallPackages

\* the program is started a second time on the package a successful run has
\* left, with the same command line; the statement log starts anew
Rerun ==
    /\ pc = "done"
    /\ log[1].op # "rerun"
    /\ pc' = "main"
    /\ log' = <<Entry("rerun", "", "", "")>>
    /\ tableNames' = <<>>
    /\ ti' = 0
    /\ si' = 0
    /\ cursor' = {}
    /\ UNCHANGED <<loadVars, serviceType, config, db, tx>>

Next == main \/ openDb \/ optimizeOWSGeopackage \/ optimizeOAFGeopackage \/ Rerun

Spec == Init /\ [][Next]_vars

---------------------------------------------------------------------------
(* Properties *)

IsPrefix(s, t) == Len(s) <= Len(t) /\ \A k \in 1..Len(s) : s[k] = t[k]

\* the statements issued in the loop iteration of table T, as <<op, what>>
IterLog(T) ==
    LET own == SelectSeq(log, LAMBDA e : e.iter = T)
    IN [k \in 1..Len(own) |-> <<own[k].op, own[k].what>>]

Succeeded == pc = "done"

\* the rows of table T
RowsOf(T) == db.rows[T]

(* C1: after a successful OWS run every row of every catalog table has
   fuuid = <table> "." puuid, and puuid and fuuid are unique within the table *)
C1_OwsIdentifiers ==
    (serviceType = "ows" /\ Succeeded) =>
        \A T \in Tables(db.catalog) :
            /\ {"puuid", "fuuid"} \subseteq db.cols[T]
            /\ \A r \in DOMAIN RowsOf(T) :
                  /\ RowsOf(T)[r]["puuid"].t = "text"
                  /\ RowsOf(T)[r]["fuuid"] = Text(T \o "." \o RowsOf(T)[r]["puuid"].s)
                  /\ \A q \in DOMAIN RowsOf(T) \ {r} :
                        /\ RowsOf(T)[q]["puuid"] # RowsOf(T)[r]["puuid"]
                        /\ RowsOf(T)[q]["fuuid"] # RowsOf(T)[r]["fuuid"]

C1_Witness ==
    /\ serviceType = "ows" /\ Succeeded
    /\ Len(db.catalog) = 2
    /\ \A T \in Tables(db.catalog) : Cardinality(DOMAIN RowsOf(T)) >= 2

\* the external_fid backfill of table T has committed
ExtCommitted(T) ==
    \E k \in 1..Len(log) :
        log[k].op = "commit" /\ log[k].iter = T /\ log[k].what = "external_fid"

\* the string form of one column value; a null contributes nothing
StringForm(v) ==
    CASE v.t = "null" -> ""
      [] v.t = "text" -> v.s
      [] v.t = "int" -> Itoa(v.i)

\* the string forms of a row's values in the listed columns, in list order
RECURSIVE ConcatForms(_, _)
ConcatForms(row, columns) ==
    IF columns = <<>> THEN ""
    ELSE StringForm(row[Head(columns)]) \o ConcatForms(row, Tail(columns))

\* the configured external_fid_columns of table T
ExtColumnsOf(T) == config.layers[T].external_fid_columns.v

\* version 5 UUID of a name in the fixed namespace
UUIDv5(name) == Text("uuid5(098c4e26-6e36-5693-bae9-df35db0bee49," \o name \o ")")

(* C2: once the external_fid backfill of a configured table T has committed,
   every row of T holds the UUIDv5 of T directly followed by the string forms
   of its own values in external_fid_columns, in list order, null as "";
   the fid value is not part of the string *)
C2_ExternalFid ==
    \A T \in Tables(db.catalog) :
        ExtCommitted(T) =>
            \A r \in DOMAIN RowsOf(T) :
                RowsOf(T)[r]["external_fid"]
                    = UUIDv5(T \o ConcatForms(RowsOf(T)[r], ExtColumnsOf(T)))

C2_Witness ==
    \E T \in Tables(db.catalog) :
        /\ ExtCommitted(T)
        /\ Len(ExtColumnsOf(T)) = 2
        /\ \E r, q \in DOMAIN RowsOf(T) :
              RowsOf(T)[r]["code"] = Null /\ RowsOf(T)[q]["code"] = Text("b")

\* rows r and q of T agree on every listed column
SameValues(T, r, q) ==
    \A k \in 1..Len(ExtColumnsOf(T)) :
        RowsOf(T)[r][ExtColumnsOf(T)[k]] = RowsOf(T)[q][ExtColumnsOf(T)[k]]

(* C3: the external identifier is deterministic: rows of a table with the same
   values in external_fid_columns hold the same external_fid, whatever their
   fid and the order in which the rows were processed *)
C3_Deterministic ==
    \A T \in Tables(db.catalog) :
        ExtCommitted(T) =>
            \A r, q \in DOMAIN RowsOf(T) :
                SameValues(T, r, q) =>
                    RowsOf(T)[r]["external_fid"] = RowsOf(T)[q]["external_fid"]

C3_Witness ==
    \E T \in Tables(db.catalog) :
        /\ ExtCommitted(T)
        /\ Len(ExtColumnsOf(T)) = 1
        /\ \E r, q \in DOMAIN RowsOf(T) :
              /\ r # q
              /\ SameValues(T, r, q)
              /\ RowsOf(T)[r]["fid"] # RowsOf(T)[q]["fid"]
              /\ RowsOf(T)[r]["external_fid"].t = "text"

\* the inputs of the derivation for row r of T: the table name and the
\* string forms of the listed values, in order
InputsOf(T, r) ==
    <<T>> \o [k \in 1..Len(ExtColumnsOf(T)) |->
                StringForm(RowsOf(T)[r][ExtColumnsOf(T)[k]])]

\* pairs of rows of tables whose backfill has committed
DerivedRows ==
    {p \in Tables(db.catalog) \X (1..MaxRows + 1) :
        ExtCommitted(p[1]) /\ p[2] \in DOMAIN RowsOf(p[1])}

(* C4 as stated: inputs that differ in the table name or in a column value
   get different external_fid values *)
C4_AnyByteChanges ==
    \A p, q \in DerivedRows :
        (Len(ExtColumnsOf(p[1])) = Len(ExtColumnsOf(q[1]))
            /\ InputsOf(p[1], p[2]) # InputsOf(q[1], q[2]))
        => RowsOf(p[1])[p[2]]["external_fid"] # RowsOf(q[1])[q[2]]["external_fid"]

(* C4 amended: two derivations yield the same external_fid exactly when the
   table name followed by the string forms of the values is the same string *)
C4_ConcatDecides ==
    \A p, q \in DerivedRows :
        (RowsOf(p[1])[p[2]]["external_fid"] = RowsOf(q[1])[q[2]]["external_fid"])
        <=> (Join(InputsOf(p[1], p[2]), "") = Join(InputsOf(q[1], q[2]), ""))

C4_Witness ==
    \E p, q \in DerivedRows :
        /\ p[1] # q[1]
        /\ InputsOf(p[1], p[2]) # InputsOf(q[1], q[2])
        /\ RowsOf(p[1])[p[2]]["external_fid"] = RowsOf(q[1])[q[2]]["external_fid"]
        /\ \E r \in DerivedRows :
              RowsOf(p[1])[p[2]]["external_fid"] # RowsOf(r[1])[r[2]]["external_fid"]

\* some name occurs more than once in the list
SameNameTwice(indices) ==
    Cardinality({indices[k].name : k \in 1..Len(indices)}) < Len(indices)

\* the index statements issued for the configured list
ListedIndexLog == SelectSeq(log, LAMBDA e : e.op = "createIndex" /\ e.iter = "")

(* C5: in OWS mode a configured index list with two equal names aborts the run
   before any index of the list is created: no statement for a listed index is
   issued and the package holds only the puuid and fuuid indexes *)
C5_NoIndexOnCollision ==
    (serviceType = "ows" /\ config.kind = "json" /\ SameNameTwice(config.indices)) =>
        /\ ListedIndexLog = <<>>
        /\ ~Succeeded
        /\ \A ix \in db.idx :
              ix.name \in {ix.tbl \o "_puuid_index", ix.tbl \o "_fuuid_index"}

C5_Witness ==
    /\ serviceType = "ows" /\ pc = "fatal"
    /\ Len(tableNames) = 2 /\ ti = 3
    /\ Len(config.indices) = 3
    /\ config.indices[1].name # config.indices[2].name
    /\ config.indices[2].name = config.indices[3].name

(* C6: in OAF mode with a configuration, a catalog table without entry in
   layers is skipped without error: no statement is issued for it, it keeps
   its columns and rows, gets no index, the run never aborts on it and the
   configured tables after it are processed *)
C6_UnconfiguredSkipped ==
    (serviceType = "oaf" /\ config.kind = "json") =>
        \A k \in 1..Len(tableNames) :
            LET T == tableNames[k] IN
            T \notin DOMAIN config.layers =>
                /\ IterLog(T) = <<>>
                /\ db.cols[T] = BaseCols
                /\ RowsOf(T) \in PlainRows(T)
                /\ \A ix \in db.idx : ix.tbl # T
                /\ (pc = "fatal" => ti # k)
                /\ (Succeeded =>
                      \A j \in (k + 1)..Len(tableNames) :
                          tableNames[j] \in DOMAIN config.layers =>
                              IterLog(tableNames[j]) # <<>>)

C6_Witness ==
    /\ serviceType = "oaf" /\ config.kind = "json" /\ Succeeded
    /\ tableNames = <<"ab", "a">>
    /\ DOMAIN config.layers = {"a"}
    /\ Cardinality(DOMAIN RowsOf("ab")) = 2
    /\ "minx" \in db.cols["a"]

\* the envelope of a geometry value; no geometry, no envelope
ExtentOf(v) ==
    IF v.t = "geom"
    THEN <<Integer(v.minx), Integer(v.maxx), Integer(v.miny), Integer(v.maxy)>>
    ELSE <<Null, Null, Null, Null>>

(* C7: after a successful OAF run without configuration every catalog table
   has exactly the added columns minx, maxx, miny, maxy, filled from each row's
   geometry, exactly one index, <table>_spatial_idx over
   [fid, minx, maxx, miny, maxy], and fresh statistics; there is no
   external_fid column and no temporal index *)
C7_DefaultOnly ==
    (serviceType = "oaf" /\ config.kind = "none" /\ Succeeded) =>
        \A T \in Tables(db.catalog) :
            /\ db.cols[T] = BaseCols \cup {"minx", "maxx", "miny", "maxy"}
            /\ \A r \in DOMAIN RowsOf(T) :
                  LET row == RowsOf(T)[r] IN
                  <<row["minx"], row["maxx"], row["miny"], row["maxy"]>>
                      = ExtentOf(row["geom"])
            /\ {ix \in db.idx : ix.tbl = T}
                  = {[name |-> T \o "_spatial_idx", tbl |-> T, unique |-> FALSE,
                      columns |-> <<"fid", "minx", "maxx", "miny", "maxy">>]}
            /\ db.stats

C7_Witness ==
    /\ serviceType = "oaf" /\ config.kind = "none" /\ Succeeded
    /\ Len(db.catalog) = 2
    /\ \A T \in Tables(db.catalog) : Cardinality(DOMAIN RowsOf(T)) = 2

\* n times the same step
Repeat(step, n) == [k \in 1..n |-> step]

\* the steps of a configured table, in the order the claim gives
OafSteps(T) ==
    LET l == config.layers[T]
        n == Cardinality(DOMAIN RowsOf(T))
    IN  [k \in 1..Len(l.sql_statements) |-> <<"executeQuery", l.sql_statements[k].text>>]
        \o (IF l.external_fid_columns.set
            THEN << <<"addColumn", "external_fid">>, <<"begin", "">> >>
                 \o Repeat(<<"update", "external_fid">>, n)
                 \o << <<"commit", "external_fid">>,
                       <<"createIndex", T \o "_external_fid_idx">> >>
            ELSE <<>>)
        \o (IF l.temporal_columns.set
            THEN << <<"createIndex", T \o "_temporal_idx">> >>
            ELSE <<>>)
        \o << <<"addColumn", "minx">>, <<"addColumn", "maxx">>,
              <<"addColumn", "miny">>, <<"addColumn", "maxy">>,
              <<"setColumnValue", "minx">>, <<"setColumnValue", "maxx">>,
              <<"setColumnValue", "miny">>, <<"setColumnValue", "maxy">>,
              <<"createIndex", T \o "_spatial_idx">>,
              <<"analyze", "">> >>

(* C8: for each configured table in OAF mode the statements issued are, in
   this order, the sql_statements in list order, the external_fid block if
   external_fid_columns is set, the temporal index if temporal_columns is set,
   the four extent columns, their population, the composite index and the
   statistics refresh: at any time a prefix of that sequence, and all of it
   when the run succeeds *)
C8_OafStepOrder ==
    (serviceType = "oaf" /\ config.kind = "json") =>
        \A T \in Tables(db.catalog) \cap DOMAIN config.layers :
            /\ IsPrefix(IterLog(T), OafSteps(T))
            /\ (Succeeded => IterLog(T) = OafSteps(T))

C8_Witness ==
    /\ serviceType = "oaf" /\ config.kind = "json" /\ Succeeded
    /\ \E T \in Tables(db.catalog) \cap DOMAIN config.layers :
          /\ Len(config.layers[T].sql_statements) = 2
          /\ config.layers[T].external_fid_columns.set
          /\ config.layers[T].temporal_columns.set
          /\ Cardinality(DOMAIN RowsOf(T)) = 2

\* the steps of a table in OWS mode, in the order the claim gives
OwsSteps(T) ==
    << <<"addColumn", "puuid">>, <<"select", "rowid">>, <<"begin", "">> >>
    \o Repeat(<<"update", "puuid">>, Cardinality(DOMAIN RowsOf(T)))
    \o << <<"commit", "puuid">>, <<"createIndex", T \o "_puuid_index">>,
          <<"addColumn", "fuuid">>, <<"setColumnValue", "fuuid">>,
          <<"createIndex", T \o "_fuuid_index">> >>

(* C9: for each table in OWS mode the statements issued are, in this order and
   each once: add puuid, one update per row inside one transaction, commit,
   unique index on puuid, add fuuid, one statement setting fuuid, unique index
   on fuuid; fuuid exists only after the puuid backfill has committed *)
C9_OwsStepOrder ==
    serviceType = "ows" =>
        \A T \in Tables(db.catalog) :
            /\ IsPrefix(IterLog(T), OwsSteps(T))
            /\ (Succeeded => IterLog(T) = OwsSteps(T))
            /\ "fuuid" \in db.cols[T] =>
                  /\ (tx.open => CurTable # T)
                  /\ \A r \in DOMAIN RowsOf(T) : RowsOf(T)[r]["puuid"] # Null
            /\ \A ix \in db.idx : ix.tbl = T /\ ix.columns \in {<<"puuid">>, <<"fuuid">>}
                                      => ix.unique

C9_Witness ==
    /\ serviceType = "ows" /\ Succeeded
    /\ Len(db.catalog) = 2
    /\ \E T \in Tables(db.catalog) : Cardinality(DOMAIN RowsOf(T)) = 2

\* the identifier column and the temporal columns table T is processed with
FidColumnOf(T) ==
    IF config.kind = "json" /\ config.layers[T].fid_column # ""
    THEN config.layers[T].fid_column ELSE "fid"
TemporalOf(T) ==
    IF config.kind = "json" /\ config.layers[T].temporal_columns.set
    THEN config.layers[T].temporal_columns.v ELSE <<>>

(* C10: the OAF composite index of a table is non-unique and its columns are
   exactly fid_column, minx, maxx, miny, maxy, then the temporal_columns in
   configured order if set; a table whose steps have completed has it *)
C10_CompositeIndex ==
    serviceType = "oaf" =>
        \A T \in Tables(db.catalog) :
            /\ \A ix \in db.idx :
                  ix.name = T \o "_spatial_idx" =>
                      /\ ix.tbl = T
                      /\ ~ix.unique
                      /\ ix.columns = <<FidColumnOf(T), "minx", "maxx", "miny", "maxy">>
                                         \o TemporalOf(T)
            /\ (Succeeded /\ IterLog(T) # <<>>) =>
                  \E ix \in db.idx : ix.name = T \o "_spatial_idx"

C10_Witness ==
    \E ix \in db.idx :
        /\ ix.name = ix.tbl \o "_spatial_idx"
        /\ Len(ix.columns) = 7
        /\ ix.columns[1] = "fid"
        /\ Succeeded

\* the run has aborted inside the row loop of the current table's backfill:
\* the last statement issued is the Begin or a per-row update of that table
AbortedInBackfill(what) ==
    /\ pc = "fatal"
    /\ ti \in 1..Len(tableNames)
    /\ Len(log) > 0
    /\ log[Len(log)].iter = CurTable
    /\ \/ log[Len(log)].op = "begin"
       \/ log[Len(log)].op = "update" /\ log[Len(log)].what = what

\* the tables after the current one in catalog order
LaterTables == {tableNames[k] : k \in (ti + 1)..Len(tableNames)}

(* C11: when the OWS run aborts inside the puuid backfill of a table, the
   whole backfill of that table is rolled back: no row of the table holds a
   puuid, the transaction is gone, the table has no puuid index and no fuuid,
   and no statement has been issued for a later table or for a listed index *)
C11_PuuidRollback ==
    (serviceType = "ows" /\ AbortedInBackfill("puuid")) =>
        /\ \A r \in DOMAIN RowsOf(CurTable) : RowsOf(CurTable)[r]["puuid"] = Null
        /\ ~tx.open
        /\ "fuuid" \notin db.cols[CurTable]
        /\ \A ix \in db.idx : ix.tbl # CurTable
        /\ \A T \in LaterTables : IterLog(T) = <<>> /\ db.cols[T] = BaseCols
        /\ ListedIndexLog = <<>>

C11_Witness ==
    /\ serviceType = "ows" /\ AbortedInBackfill("puuid")
    /\ log[Len(log)].op = "update"
    /\ Cardinality(DOMAIN RowsOf(CurTable)) = 2
    /\ LaterTables # {}

(* C12: when the OAF run aborts inside the external_fid backfill of a table
   (the query of the listed columns, a scan or a per-row update fails), the
   table's transaction is rolled back: no row of the table holds an
   external_fid, the external_fid index does not exist, and no statement has
   been issued for a later table *)
C12_ExternalFidRollback ==
    (serviceType = "oaf" /\ AbortedInBackfill("external_fid")) =>
        /\ \A r \in DOMAIN RowsOf(CurTable) : RowsOf(CurTable)[r]["external_fid"] = Null
        /\ ~tx.open
        /\ \A ix \in db.idx : ix.name # CurTable \o "_external_fid_idx"
        /\ \A T \in LaterTables : IterLog(T) = <<>> /\ db.cols[T] = BaseCols

C12_Witness ==
    /\ serviceType = "oaf" /\ AbortedInBackfill("external_fid")
    /\ log[Len(log)].op = "update"
    /\ Cardinality(DOMAIN RowsOf(CurTable)) = 2
    /\ LaterTables \cap DOMAIN config.layers # {}

GeomColumnOf(T) ==
    IF config.kind = "json" /\ config.layers[T].geom_column # ""
    THEN config.layers[T].geom_column ELSE "geom"

\* the columns the layer of T refers to
ReferencedColumns(T) ==
    {FidColumnOf(T), GeomColumnOf(T)}
    \cup SeqToSet(config.layers[T].external_fid_columns.v)
    \cup SeqToSet(config.layers[T].temporal_columns.v)

\* the columns the layer's own sql_statements add to T
StatementColumns(T) ==
    LET stmts == config.layers[T].sql_statements
    IN {stmts[k].col : k \in {j \in 1..Len(stmts) :
                                 stmts[j].op = "addcol" /\ stmts[j].tbl = T}}

\* the configured catalog tables whose layer names a column the table has not
MissingReference ==
    {T \in Tables(db.catalog) :
        /\ config.kind = "json"
        /\ T \in DOMAIN config.layers
        /\ ~(ReferencedColumns(T) \subseteq BaseCols \cup StatementColumns(T))}

ExtentColumns == {"minx", "maxx", "miny", "maxy"}

\* the run has aborted in the loop iteration of table T
AbortedAt(T) == pc = "fatal" /\ ti \in 1..Len(tableNames) /\ CurTable = T

\* the extent step of T has begun: its first statement has been issued
ExtentStarted(T) ==
    \E k \in 1..Len(IterLog(T)) : IterLog(T)[k] = <<"addColumn", "minx">>

(* C13 as stated: a layer naming a missing column makes the OAF run abort and
   the extent step of that table leaves nothing behind: none of minx, maxx,
   miny, maxy has been added and the composite index does not exist *)
C13_NoPartialExtent ==
    serviceType = "oaf" =>
        \A T \in MissingReference :
            /\ ~Succeeded
            /\ AbortedAt(T) =>
                  /\ ExtentColumns \cap db.cols[T] = {}
                  /\ \A ix \in db.idx : ix.name # T \o "_spatial_idx"

(* C13 amended: a layer naming a missing column makes the OAF run abort and
   the composite index of that table is never created; when the abort falls
   into the extent step (missing geom_column, or missing fid_column without
   external_fid_columns) all four extent columns have been added and stay,
   when it falls before the extent step none of them has been added *)
C13_PartialExtent ==
    serviceType = "oaf" =>
        \A T \in MissingReference :
            /\ ~Succeeded
            /\ \A ix \in db.idx : ix.name # T \o "_spatial_idx"
            /\ AbortedAt(T) =>
                  IF ExtentStarted(T)
                  THEN ExtentColumns \subseteq db.cols[T]
                  ELSE ExtentColumns \cap db.cols[T] = {}

C13_Witness ==
    /\ serviceType = "oaf"
    /\ \E T \in MissingReference :
          /\ AbortedAt(T)
          /\ FidColumnOf(T) = "nofid"
          /\ log[Len(log)] = Entry("createIndex", T, T, T \o "_spatial_idx")
          /\ ExtentColumns \subseteq db.cols[T]
          /\ \E r \in DOMAIN RowsOf(T) : RowsOf(T)[r]["minx"] # Null

\* the loop iteration of table T has run to its end
IterationCompleted(T) ==
    \E k \in 1..Len(IterLog(T)) : IterLog(T)[k][1] = "analyze"

(* C14: every column a layer refers to (fid_column, geom_column, the entries
   of external_fid_columns and of temporal_columns) must exist in the table:
   if one does not, the iteration of that table never runs to its end, the
   loop never moves past the table and the run never succeeds *)
C14_ReferencedColumnsExist ==
    serviceType = "oaf" =>
        \A k \in 1..Len(tableNames) :
            tableNames[k] \in MissingReference =>
                /\ ~IterationCompleted(tableNames[k])
                /\ ti <= k
                /\ pc # "done"

C14_Witness ==
    /\ serviceType = "oaf"
    /\ \E T \in MissingReference :
          /\ AbortedAt(T)
          /\ "nocol" \in SeqToSet(config.layers[T].temporal_columns.v)
          /\ log[Len(log)] = Entry("createIndex", T, T, T \o "_temporal_idx")
          /\ LaterTables \cap DOMAIN config.layers # {}

\* the process is the second one started on the package
SecondRun == Len(log) > 0 /\ log[1].op = "rerun"

(* C15: a second OAF run on a package a first run has optimized fails at the
   addition of column minx: the extent step of a table never gets further
   than that statement, which is fatal and leaves the table as the first run
   left it, and without configuration the second run never succeeds on a
   package that has a table *)
C15_SecondRunFails ==
    (serviceType = "oaf" /\ SecondRun) =>
        /\ \A T \in Tables(db.catalog) :
              ExtentStarted(T) =>
                  /\ pc = "fatal"
                  /\ log[Len(log)] = Entry("addColumn", T, T, "minx")
                  /\ ExtentColumns \subseteq db.cols[T]
                  /\ \E ix \in db.idx : ix.name = T \o "_spatial_idx"
        /\ (config.kind = "none" /\ db.catalog # <<>>) =>
              /\ ~Succeeded
              /\ (pc = "fatal" => ExtentStarted(db.catalog[1]))

C15_Witness ==
    /\ serviceType = "oaf" /\ SecondRun /\ config.kind = "none"
    /\ pc = "fatal"
    /\ Len(db.catalog) = 2
    /\ ExtentStarted(db.catalog[1])
    /\ Cardinality(DOMAIN RowsOf(db.catalog[1])) = 2

\* the statement of log entry e has taken effect on the package
TookEffect(e) ==
    CASE e.op = "getTableNames" -> db.conn /\ db.valid
      [] e.op = "addColumn" -> e.what \in db.cols[e.tbl]
      [] e.op = "executeQuery" ->
            \E k \in 1..Len(config.layers[e.iter].sql_statements) :
                LET stmt == config.layers[e.iter].sql_statements[k] IN
                /\ stmt.text = e.what
                /\ stmt.op = "addcol"
                /\ stmt.col \in db.cols[stmt.tbl]
      [] e.op = "begin" ->
            IF serviceType = "ows" THEN "puuid" \in db.cols[e.tbl]
            ELSE {FidColumnOf(e.tbl)}
                 \cup SeqToSet(config.layers[e.tbl].external_fid_columns.v)
                     \subseteq db.cols[e.tbl]
      [] e.op = "setColumnValue" ->
            /\ e.what \in db.cols[e.tbl]
            /\ e.what \in ExtentColumns =>
                  db.spatial /\ GeomColumnOf(e.tbl) \in db.cols[e.tbl]
      [] e.op = "createIndex" ->
            \E ix \in db.idx : ix.name = e.what
      [] OTHER -> TRUE

\* a process that has stopped with a fatal error takes no further step
FatalIsFinal == [][pc # "fatal"]_vars

\* every statement issued has taken effect, but for the last one of a run
\* that it has ended
OneErrorAtMost ==
    \A k \in 1..Len(log) :
        TookEffect(log[k]) \/ (k = Len(log) /\ pc = "fatal")

(* C16: the first fatal error ends the run: a statement that fails is the
   last statement of the run (no statement follows it, so no table is
   processed after it and no second statement fails), and a process that has
   stopped on a fatal error (failed statement, config decode failure,
   duplicate index name, invalid service type) takes no further step *)
C16_FirstErrorEndsRun == []OneErrorAtMost /\ FatalIsFinal

C16_Witness ==
    /\ pc = "fatal"
    /\ Len(log) > 2
    /\ log[Len(log)].op = "executeQuery"
    /\ ~TookEffect(log[Len(log)])
    /\ LaterTables \cap DOMAIN config.layers # {}

\* gpkg_contents has been read in this run
TablesEnumerated == \E k \in 1..Len(log) : log[k].op = "getTableNames"

(* C17 as stated: the configuration is decoded before the pipeline enumerates
   the tables, so a run whose configuration does not decode never gets to
   read gpkg_contents *)
C17_ConfigBeforeTables ==
    config.kind = "malformed" => ~TablesEnumerated

(* C17 amended: the service type is selected first, the pipeline then
   enumerates the tables, and the configuration is decoded only after that:
   in OAF mode before any table is processed, in OWS mode after all tables
   have been processed.  A configuration that does not decode therefore stops
   an OAF run after gpkg_contents has been read and before any statement for
   a table, and an OWS run only after every table has got all its steps *)
C17_TablesBeforeConfig ==
    /\ pc \in {"main", "ows_openDb", "oaf_openDb"} => ~TablesEnumerated
    /\ (config.kind = "malformed" /\ serviceType = "oaf") =>
          /\ \A T \in Tables(db.catalog) : IterLog(T) = <<>>
          /\ pc = "fatal" => (TablesEnumerated /\ log[Len(log)].op = "getTableNames")
    /\ (config.kind = "malformed" /\ serviceType = "ows") =>
          /\ ~Succeeded
          /\ pc = "fatal" => TablesEnumerated
          /\ (pc = "fatal" /\ ti = Len(tableNames) + 1) =>
                \A T \in Tables(db.catalog) : IterLog(T) = OwsSteps(T)

C17_Witness ==
    /\ config.kind = "malformed" /\ serviceType = "ows"
    /\ pc = "fatal"
    /\ Len(tableNames) = 2 /\ ti = 3
    /\ \A T \in Tables(db.catalog) : "fuuid" \in db.cols[T]

\* the loop has moved past table number k of the catalog
Passed(k) == ti > k \/ Succeeded

(* C18 as stated: in both modes the last step of every processed table is a
   statistics refresh *)
C18_AnalyzeLastInBothModes ==
    \A k \in 1..Len(tableNames) :
        LET T == tableNames[k] IN
        (Passed(k) /\ IterLog(T) # <<>>) =>
            IterLog(T)[Len(IterLog(T))] = <<"analyze", "">>

(* C18 amended: in OAF mode the last step of every processed table is a
   statistics refresh, issued once and after all other statements of the
   table, and a successful run that processed a table leaves fresh
   statistics; in OWS mode no statistics refresh is ever issued *)
C18_AnalyzeLastInOaf ==
    /\ serviceType = "oaf" =>
          /\ \A k \in 1..Len(tableNames) :
                LET T == tableNames[k]
                    n == Len(IterLog(T))
                IN /\ \A j \in 1..n : IterLog(T)[j][1] = "analyze" => j = n
                   /\ (Passed(k) /\ n > 0) => IterLog(T)[n] = <<"analyze", "">>
          /\ (Succeeded /\ \E T \in Tables(db.catalog) : IterLog(T) # <<>>) => db.stats
    /\ serviceType = "ows" =>
          /\ \A k \in 1..Len(log) : log[k].op # "analyze"
          /\ ~db.stats

C18_Witness ==
    /\ serviceType = "oaf" /\ config.kind = "json" /\ Succeeded
    /\ Len(tableNames) = 2
    /\ \A T \in Tables(db.catalog) : IterationCompleted(T) /\ Len(IterLog(T)) > 12

\* the index that entry k of the configured list asks for; an empty name
\* stands for the synthesized one
SpecifiedIndex(k) ==
    LET index == config.indices[k] IN
    [name |-> IndexName(index.table, index.columns, index.name),
     tbl |-> index.table, columns |-> index.columns, unique |-> index.unique]

\* the indexes of the package other than those of the per-table steps
ListedIndexes ==
    {ix \in db.idx :
        \A T \in Tables(db.catalog) :
            ix.name \notin {T \o "_puuid_index", T \o "_fuuid_index"}}

(* C19: in an OWS run on a fresh package with a list of indexes of pairwise
   distinct names, the
   statements for the list are issued only after every table has got all its
   steps, in list order; each one that succeeds leaves the index exactly as
   specified (table, columns in order, name, uniqueness); the first one that
   fails ends the run, with the indexes before it in place and none of the
   later ones created; a successful run has created them all *)
C19_ListedIndexes ==
    (serviceType = "ows" /\ ~SecondRun /\ config.kind = "json"
        /\ ~SameNameTwice(config.indices)) =>
        LET n == Len(ListedIndexLog)
            created == IF pc = "fatal" /\ n > 0 THEN n - 1 ELSE n
        IN /\ n <= Len(config.indices)
           /\ \A k \in 1..n :
                 /\ ListedIndexLog[k].what = SpecifiedIndex(k).name
                 /\ ListedIndexLog[k].tbl = SpecifiedIndex(k).tbl
           /\ ListedIndexes = {SpecifiedIndex(k) : k \in 1..created}
           /\ n > 0 => \A T \in Tables(db.catalog) : IterLog(T) = OwsSteps(T)
           /\ Succeeded => n = Len(config.indices)

C19_Witness ==
    /\ serviceType = "ows" /\ ~SecondRun /\ config.kind = "json"
    /\ ~SameNameTwice(config.indices)
    /\ Len(config.indices) = 3
    /\ pc = "fatal"
    /\ Len(ListedIndexLog) = 2
    /\ ListedIndexes = {SpecifiedIndex(1)}

\* some statement has been issued in the loop iteration of table T
Processed(T) == IterLog(T) # <<>>

(* C20: OWS mode processes every table of gpkg_contents whatever the
   configuration is (absent, not decodable, an index list, a document with
   layers): every table the loop has passed has got all its steps.  OAF mode
   with a configuration processes exactly the catalog tables with an entry in
   layers: a table the loop has passed has been processed to its end if it
   has an entry and not at all if it has none, and an entry for a table that
   is not in the catalog causes no statement *)
C20_TablesProcessed ==
    /\ serviceType = "ows" =>
          \A k \in 1..Len(tableNames) :
              Passed(k) => IterLog(tableNames[k]) = OwsSteps(tableNames[k])
    /\ (serviceType = "oaf" /\ config.kind = "json") =>
          /\ \A k \in 1..Len(tableNames) :
                LET T == tableNames[k] IN
                /\ Processed(T) => T \in DOMAIN config.layers
                /\ Passed(k) =>
                      IF T \in DOMAIN config.layers
                      THEN IterationCompleted(T)
                      ELSE ~Processed(T)
          /\ \A T \in DOMAIN config.layers \ Tables(db.catalog) : ~Processed(T)

C20_Witness ==
    /\ serviceType = "ows" /\ Succeeded
    /\ config = OwsLayeredConfig
    /\ tableNames = <<"ab", "a">>
    /\ \A T \in {"a", "ab"} : IterLog(T) = OwsSteps(T)

\* the column names in order, with an underscore between two of them
RECURSIVE Underscored(_)
Underscored(columns) ==
    IF Len(columns) = 1 THEN columns[1]
    ELSE columns[1] \o "_" \o Underscored(Tail(columns))

\* the name an index gets: the given one, or <table>_<col1>_<col2>..._index
NameFor(t, columns, name) ==
    IF name = "" THEN t \o "_" \o Underscored(columns) \o "_index" ELSE name

(* C21: createIndex with an empty name creates the index
   <table>_<col1>_<col2>..._index, with a non-empty name it uses the name
   unchanged, and the index is unique exactly when the flag is true: every
   index of the package is one the program asked for, under that name and
   with that uniqueness, and a successful first OWS run has made such an
   index for every entry of the configured list *)
C21_IndexNames ==
    /\ \A ix \in db.idx :
          \/ /\ serviceType = "ows"
             /\ \E c \in {"puuid", "fuuid"} :
                   ix = [name |-> ix.tbl \o "_" \o c \o "_index", tbl |-> ix.tbl,
                         columns |-> <<c>>, unique |-> TRUE]
          \/ /\ serviceType = "ows"
             /\ \E k \in 1..Len(config.indices) :
                   LET index == config.indices[k] IN
                   ix = [name |-> NameFor(index.table, index.columns, index.name),
                         tbl |-> index.table, columns |-> index.columns,
                         unique |-> index.unique]
          \/ /\ serviceType = "oaf"
             /\ ~ix.unique
             /\ ix.name \in {ix.tbl \o "_external_fid_idx", ix.tbl \o "_temporal_idx",
                             ix.tbl \o "_spatial_idx"}
    /\ (serviceType = "ows" /\ Succeeded /\ ~SecondRun) =>
          \A k \in 1..Len(config.indices) :
              LET index == config.indices[k] IN
              \E ix \in db.idx :
                  ix = [name |-> NameFor(index.table, index.columns, index.name),
                        tbl |-> index.table, columns |-> index.columns,
                        unique |-> index.unique]

C21_Witness ==
    /\ serviceType = "ows" /\ Succeeded
    /\ \E ix \in db.idx :
          ix = [name |-> "a_code_name_index", tbl |-> "a",
                columns |-> <<"code", "name">>, unique |-> TRUE]
    /\ \E ix \in db.idx : ix.name = "i1" /\ ~ix.unique

\* the steps of table T in an OAF run, with or without configuration
OafStepsOf(T) ==
    IF config.kind = "json" THEN OafSteps(T)
    ELSE << <<"addColumn", "minx">>, <<"addColumn", "maxx">>,
            <<"addColumn", "miny">>, <<"addColumn", "maxy">>,
            <<"setColumnValue", "minx">>, <<"setColumnValue", "maxx">>,
            <<"setColumnValue", "miny">>, <<"setColumnValue", "maxy">>,
            <<"createIndex", T \o "_spatial_idx">>, <<"analyze", "">> >>

\* the tables an OAF run processes
OafTables ==
    IF config.kind = "json" THEN Tables(db.catalog) \cap DOMAIN config.layers
    ELSE Tables(db.catalog)

\* the host cannot load the spatial extension, and openDb has returned
NoSpatialCapability ==
    db.host = "none" /\ pc \notin {"main", "ows_openDb", "oaf_openDb"}

(* C22: when the spatial extension cannot be loaded, openDb returns a usable
   connection and the run goes on: gpkg_contents is read.  An OAF run then
   issues every step of a table up to the population of minx, which is fatal:
   it is the only bulk update ever issued, and no extent value and no
   composite index exists.  The only bulk update of an OWS run, the one of
   fuuid, takes effect as usual *)
C22_DegradedRunContinues ==
    (NoSpatialCapability /\ db.valid /\ serviceType \in {"ows", "oaf"} /\ ~SecondRun) =>
        /\ ~db.spatial
        /\ pc = "fatal" => (TablesEnumerated /\ log[Len(log)].op # "getTableNames")
        /\ (serviceType = "oaf" /\ config.kind # "malformed") =>
              \A T \in OafTables :
                  LET own == IterLog(T) IN
                  /\ IsPrefix(own, OafStepsOf(T))
                  /\ ~IterationCompleted(T)
                  /\ \A k \in 1..Len(own) :
                        own[k][1] = "setColumnValue" =>
                            /\ own[k][2] = "minx"
                            /\ k = Len(own)
                            /\ pc = "fatal"
                  /\ \A ix \in db.idx : ix.name # T \o "_spatial_idx"
                  /\ \A r \in DOMAIN RowsOf(T) :
                        \A c \in ExtentColumns \cap db.cols[T] : RowsOf(T)[r][c] = Null
        /\ serviceType = "ows" =>
              \A T \in Tables(db.catalog) :
                  (\E k \in 1..Len(IterLog(T)) : IterLog(T)[k] = <<"setColumnValue", "fuuid">>)
                      => \A r \in DOMAIN RowsOf(T) :
                            RowsOf(T)[r]["fuuid"] = Text(T \o "." \o RowsOf(T)[r]["puuid"].s)

\* the extent value that column c holds for a geometry
ExtentValue(c, v) ==
    CASE c = "minx" -> ExtentOf(v)[1]
      [] c = "maxx" -> ExtentOf(v)[2]
      [] c = "miny" -> ExtentOf(v)[3]
      [] c = "maxy" -> ExtentOf(v)[4]

\* the run has aborted in the iteration of T at a statement of kind op
AbortedOn(T, op) ==
    AbortedAt(T) /\ Len(log) > 0 /\ log[Len(log)].iter = T /\ log[Len(log)].op = op

(* C23: a layer that omits fid_column is processed with "fid" and one that
   omits geom_column with "geom".  With fid_column omitted the external_fid
   backfill reaches every row through its fid and the composite index starts
   with fid and is never refused; with geom_column omitted every population
   of an extent column is accepted and takes the value from geom *)
C23_ColumnDefaults ==
    (serviceType = "oaf" /\ config.kind = "json" /\ ~SecondRun) =>
        \A T \in OafTables :
            LET l == config.layers[T]
                own == IterLog(T)
            IN /\ l.fid_column = "" =>
                    /\ ExtCommitted(T) =>
                          \A r \in DOMAIN RowsOf(T) : RowsOf(T)[r]["external_fid"] # Null
                    /\ \A ix \in db.idx :
                          ix.name = T \o "_spatial_idx" => ix.columns[1] = "fid"
                    /\ ~(AbortedOn(T, "createIndex")
                           /\ log[Len(log)].what = T \o "_spatial_idx")
               /\ l.geom_column = "" =>
                    /\ ~AbortedOn(T, "setColumnValue")
                    /\ \A k \in 1..Len(own) :
                          own[k][1] = "setColumnValue" =>
                              \A r \in DOMAIN RowsOf(T) :
                                  RowsOf(T)[r][own[k][2]]
                                      = ExtentValue(own[k][2], RowsOf(T)[r]["geom"])

C23_Witness ==
    /\ serviceType = "oaf" /\ config.kind = "json" /\ ~SecondRun /\ Succeeded
    /\ \E T \in OafTables :
          /\ config.layers[T].fid_column = "" /\ config.layers[T].geom_column = ""
          /\ ExtCommitted(T)
          /\ Cardinality(DOMAIN RowsOf(T)) = 2
          /\ \E ix \in db.idx : ix.name = T \o "_spatial_idx"
          /\ \E r \in DOMAIN RowsOf(T) : RowsOf(T)[r]["minx"] # Null

(* C24: a -service-type other than "ows" and "oaf" is fatal at once: the run
   ends in main, the package has not been opened, no statement has been
   issued, and the package is as it was *)
C24_InvalidServiceType ==
    serviceType \notin {"ows", "oaf"} =>
        /\ pc \in {"main", "fatal"}
        /\ log = <<>>
        /\ tableNames = <<>>
        /\ ~tx.open
        /\ db \in SmallPackages

C24_Witness ==
    /\ serviceType = "OAF"
    /\ pc = "fatal"
    /\ Len(db.catalog) = 2

\* the steps a run of the selected mode issues for table T; none for a table
\* it skips
StepsOf(T) ==
    IF serviceType = "ows" THEN OwsSteps(T)
    ELSE IF T \in OafTables THEN OafStepsOf(T)
    ELSE <<>>

\* the position in the catalog of the table a log entry belongs to
CatalogIndex(T) == CHOOSE k \in 1..Len(tableNames) : tableNames[k] = T

(* C25: tables are processed one at a time in catalog order: the statements
   of the log follow the catalog, every table before the current one has
   all its steps (none if it is skipped), the current one a prefix of them,
   and every table after it has none and, in the first run on a package, is
   as it was *)
C25_OneTableAtATime ==
    serviceType \in {"ows", "oaf"} =>
        /\ \A i, j \in 1..Len(log) :
              (i < j /\ log[i].iter # "" /\ log[j].iter # "") =>
                  CatalogIndex(log[i].iter) <= CatalogIndex(log[j].iter)
        /\ \A k \in 1..Len(tableNames) :
              LET T == tableNames[k] IN
              /\ k < ti => IterLog(T) = StepsOf(T)
              /\ k = ti => IsPrefix(IterLog(T), StepsOf(T))
              /\ k > ti =>
                    /\ IterLog(T) = <<>>
                    /\ ~SecondRun =>
                          /\ db.cols[T] = BaseCols
                          /\ \A ix \in db.idx : ix.tbl # T

C25_Witness ==
    /\ serviceType = "oaf" /\ ~SecondRun
    /\ Len(tableNames) = 3 /\ ti = 2
    /\ IterationCompleted(tableNames[1])
    /\ IterLog(tableNames[1]) = StepsOf(tableNames[1])
    /\ Len(IterLog(tableNames[2])) = 6
    /\ db.cols[tableNames[3]] = BaseCols

\* statement k of the log has been applied: it is not the statement the run
\* has failed on
Applied(k) == k < Len(log) \/ pc # "fatal" \/ TookEffect(log[k])

\* the columns the statements issued so far have added to table T
AddedColumns(T) ==
    {log[k].what : k \in {j \in 1..Len(log) :
                            log[j].op = "addColumn" /\ log[j].tbl = T /\ Applied(j)}}
    \cup UNION {{stmt.col : stmt \in {s \in SeqToSet(config.layers[log[k].iter].sql_statements) :
                                        s.op = "addcol" /\ s.text = log[k].what}} :
                k \in {j \in 1..Len(log) :
                         log[j].op = "executeQuery" /\ log[j].tbl = T /\ Applied(j)}}

\* the bulk update of column c of table T has been issued and applied
BulkSet(T, c) ==
    \E k \in 1..Len(log) : log[k] = Entry("setColumnValue", T, T, c) /\ Applied(k)

\* the names of the indexes the statements issued so far have created on T
CreatedIndexes(T) ==
    {log[k].what : k \in {j \in 1..Len(log) :
                            log[j].op = "createIndex" /\ log[j].tbl = T /\ Applied(j)}}

(* C26: outside the backfill transactions nothing is undone: in every state
   of a first run, also after a fatal abort, each table has exactly the
   columns the statements issued so far have added, an extent column holds
   the extent values exactly when its bulk update has been issued (NULL
   otherwise), fuuid likewise, and the table has exactly the indexes created
   so far *)
C26_NothingUndone ==
    (serviceType \in {"ows", "oaf"} /\ ~SecondRun) =>
        \A T \in Tables(db.catalog) :
            /\ db.cols[T] = BaseCols \cup AddedColumns(T)
            /\ \A c \in ExtentColumns \cap db.cols[T] :
                  \A r \in DOMAIN RowsOf(T) :
                      RowsOf(T)[r][c] = IF BulkSet(T, c)
                                        THEN ExtentValue(c, RowsOf(T)[r][GeomColumnOf(T)])
                                        ELSE Null
            /\ "fuuid" \in db.cols[T] =>
                  \A r \in DOMAIN RowsOf(T) :
                      (RowsOf(T)[r]["fuuid"] # Null) <=> BulkSet(T, "fuuid")
            /\ {ix.name : ix \in {i \in db.idx : i.tbl = T}} = CreatedIndexes(T)

C26_Witness ==
    /\ serviceType = "oaf" /\ ~SecondRun
    /\ pc = "oaf_default"
    /\ \E T \in Tables(db.catalog) :
          /\ ExtentColumns \subseteq db.cols[T]
          /\ BulkSet(T, "minx") /\ BulkSet(T, "maxx")
          /\ ~BulkSet(T, "miny") /\ ~BulkSet(T, "maxy")
          /\ \E r \in DOMAIN RowsOf(T) :
                RowsOf(T)[r]["maxx"] # Null /\ RowsOf(T)[r]["miny"] = Null
          /\ \A ix \in db.idx : ix.name # T \o "_spatial_idx"

---------------------------------------------------------------------------
(* The Windows-aware variant of utils.go: openDb loads the spatial
   capability by trying a ranked list of strategies, in up to maxRetries
   rounds.  Whether one try succeeds is a matter of the host (and, the code
   says, of timing), so each try may succeed or fail. *)

maxRetries == 3

\* loadOptions as openDb builds it: three strategies, and four more on Windows
PosixOptions == <<"Default", "Relative path", "Full path Windows">>

WindowsOptions ==
    PosixOptions \o <<"Explicit extension", "Exe directory",
                      "Exe directory with ext", "Direct DLL reference">>

\* one "Successfully loaded ..." / "Failed to load ..." line of the log
LoadEntry(how) ==
    [op |-> "load_extension", attempt |-> attempt, option |-> option,
     name |-> loadOptions[option], what |-> how]

\* variant of Load_for: a new round is started although a strategy succeeded
Load_for_ignoreSuccess ==
    /\ pc = "load_for"
    /\ IF attempt < maxRetries
          THEN pc' = "load_range" /\ option' = 1
          ELSE pc' = "load_return" /\ UNCHANGED option
    /\ UNCHANGED <<serviceType, config, db, tx, tableNames, ti, si, cursor, log>>
    /\ UNCHANGED <<loadOptions, attempt, spatialiteLoaded>>

\* for attempt := 0; attempt < maxRetries && !spatialiteLoaded; attempt++
Load_for ==
    /\ pc = "load_for"
    /\ IF attempt < maxRetries /\ ~spatialiteLoaded
          THEN pc' = "load_range" /\ option' = 1
          ELSE pc' = "load_return" /\ UNCHANGED option
    /\ UNCHANGED <<serviceType, config, db, tx, tableNames, ti, si, cursor, log>>
    /\ UNCHANGED <<loadOptions, attempt, spatialiteLoaded>>

\* break: the inner loop is left, attempt++ runs and the condition of the
\* outer loop is evaluated again
Load_break(how) ==
    /\ spatialiteLoaded' = TRUE
    /\ db' = [db EXCEPT !.spatial = TRUE]
    /\ log' = Append(log, LoadEntry(how))
    /\ attempt' = attempt + 1
    /\ pc' = "load_for"
    /\ UNCHANGED <<serviceType, config, tx, tableNames, ti, si, cursor>>
    /\ UNCHANGED <<loadOptions, option>>

\* SELECT load_extension(option.path) succeeds
Load_exec ==
    /\ pc = "load_range"
    /\ Load_break("exec")

\* it fails, LoadExtension on a raw connection of the driver succeeds
Load_raw ==
    /\ pc = "load_range"
    /\ Load_break("raw")

\* both fail: the next strategy, or the end of the round
Load_failed ==
    /\ pc = "load_range"
    /\ log' = Append(log, LoadEntry("failed"))
    /\ IF option < Len(loadOptions)
          THEN option' = option + 1 /\ UNCHANGED <<pc, attempt>>
          ELSE attempt' = attempt + 1 /\ pc' = "load_for" /\ UNCHANGED option
    /\ UNCHANGED <<serviceType, config, db, tx, tableNames, ti, si, cursor>>
    /\ UNCHANGED <<loadOptions, spatialiteLoaded>>

\* the warnings or the version line, then return db
Load_return ==
    /\ pc = "load_return"
    /\ pc' = "returned"
    /\ UNCHANGED <<serviceType, config, db, tx, tableNames, ti, si, cursor, log>>
    /\ UNCHANGED loadVars

\* openDb up to the loops: sql.Open does not touch the file, the PRAGMAs may
\* fail without consequence
LoadInit ==
    /\ pc = "load_for"
    /\ serviceType \in {"ows", "oaf"}
    /\ config = NoConfig
    /\ db \in {ThreeTablePackage, NoPackage}
    /\ tx = NoTx
    /\ tableNames = <<>>
    /\ ti = 0
    /\ si = 0
    /\ cursor = {}
    /\ log = <<>>
    /\ loadOptions \in {PosixOptions, WindowsOptions}
    /\ attempt = 0
    /\ option = 0
    /\ spatialiteLoaded = FALSE

NextLoad == Load_for \/ Load_exec \/ Load_raw \/ Load_failed \/ Load_return

\* the code is sequential and its one wait is a Sleep of 500 ms: a step that
\* can be taken is taken
SpecLoad == LoadInit /\ [][NextLoad]_vars /\ WF_vars(NextLoad)

\* the k-th try of the procedure, counted over the rounds
TryNumber(e) == e.attempt * Len(loadOptions) + e.option

\* the tries so far follow the list, round after round, every try but the
\* last one has failed, and the procedure returns only after a success or
\* after maxRetries full rounds
LoadOrderly ==
    /\ \A k \in 1..Len(log) :
          /\ log[k].attempt \in 0..(maxRetries - 1)
          /\ log[k].option \in 1..Len(loadOptions)
          /\ TryNumber(log[k]) = k
          /\ k < Len(log) => log[k].what = "failed"
    /\ spatialiteLoaded <=> (Len(log) > 0 /\ log[Len(log)].what # "failed")
    /\ attempt <= maxRetries
    /\ pc = "load_range" => ~spatialiteLoaded /\ attempt < maxRetries
    /\ pc \in {"load_return", "returned"} =>
          spatialiteLoaded \/ Len(log) = maxRetries * Len(loadOptions)
    /\ pc = "returned" => db \in {ThreeTablePackage, NoPackage,
                                  [ThreeTablePackage EXCEPT !.spatial = TRUE],
                                  [NoPackage EXCEPT !.spatial = TRUE]}

(* C27: the loading procedure tries the strategies in list order, stops at
   the first one that succeeds, makes at most 3 rounds, starts no round
   after a success, and always ends by returning the connection, loaded or
   not *)
C27_BoundedRetry == []LoadOrderly /\ <>(pc = "returned")

C27_Witness ==
    /\ pc = "returned"
    /\ spatialiteLoaded
    /\ Len(loadOptions) = 7
    /\ log[Len(log)].attempt = 1
    /\ log[Len(log)].option = 2

---------------------------------------------------------------------------
\* an OWS run has ended although no statement has failed and no row loop was
\* cut short: the last statement issued is the fuuid index of the last table
\* (or the catalog query, for an empty catalog) and it has taken effect
RejectedConfig ==
    /\ serviceType = "ows" /\ ~SecondRun
    /\ pc = "fatal"
    /\ Len(log) > 0
    /\ LET e == log[Len(log)] IN
       /\ \/ e.op = "getTableNames"
          \/ e.op = "createIndex" /\ e.iter # ""
       /\ TookEffect(e)

\* table T has its puuid and fuuid columns, a value of each in every row, and
\* the two unique indexes
OwsPersisted(T) ==
    /\ {"puuid", "fuuid"} \subseteq db.cols[T]
    /\ \A r \in DOMAIN RowsOf(T) :
          /\ RowsOf(T)[r]["puuid"] \in {Text(u) : u \in UUIDs}
          /\ RowsOf(T)[r]["fuuid"] = Text(T \o "." \o RowsOf(T)[r]["puuid"].s)
    /\ \A c \in {"puuid", "fuuid"} :
          [name |-> T \o "_" \o c \o "_index", tbl |-> T,
           columns |-> <<c>>, unique |-> TRUE] \in db.idx

(* C28: in OWS mode the configuration is looked at only when every table has
   had all its puuid/fuuid steps; a run that ends without a failed statement
   has been ended by a configuration that does not decode or that names an
   index twice, and it leaves the puuid and fuuid columns, values and unique
   indexes of every table in the package *)
C28_ConfigAfterAllTables ==
    (serviceType = "ows" /\ ~SecondRun) =>
        /\ (pc \in {"ows_config", "ows_indices"} \/ RejectedConfig) =>
              \A k \in 1..Len(tableNames) :
                  IterLog(tableNames[k]) = OwsSteps(tableNames[k])
        /\ RejectedConfig =>
              /\ \/ config.kind = "malformed"
                 \/ config.kind = "json" /\ DuplicateName(config.indices)
              /\ \A k \in 1..Len(tableNames) : OwsPersisted(tableNames[k])
        /\ (pc = "done" /\ config.kind = "json") => ~DuplicateName(config.indices)
        /\ pc = "done" => config.kind # "malformed"

C28_Witness ==
    /\ RejectedConfig
    /\ config.kind = "json" /\ DuplicateName(config.indices)
    /\ Len(tableNames) = 2
    /\ \A k \in 1..2 : OwsPersisted(tableNames[k]) /\ RowsOf(tableNames[k]) # <<>>

---------------------------------------------------------------------------
\* positions i < j of the list whose specifications both have no name
UnnamedPairs(indices) ==
    {p \in (1..Len(indices)) \X (1..Len(indices)) :
        p[1] < p[2] /\ indices[p[1]].name = "" /\ indices[p[2]].name = ""}

\* the name createIndex would give the index of specification s
SynthesizedName(s) == IndexName(s.table, s.columns, s.name)

(* C29: an OWS configuration with two index specifications without name is
   rejected as a duplicate: the run never gets to create an index of the
   list and never succeeds, whatever names createIndex would have made up
   for them *)
C29_EmptyNamesCollide ==
    (serviceType = "ows" /\ config.kind = "json"
        /\ UnnamedPairs(config.indices) # {}) =>
        /\ pc \notin {"ows_indices", "done"}
        /\ \A k \in 1..Len(log) : ~(log[k].op = "createIndex" /\ log[k].iter = "")
        /\ \A ix \in db.idx : \A k \in 1..Len(config.indices) :
              config.indices[k].name = "" =>
                  ix.name # SynthesizedName(config.indices[k])

C29_Witness ==
    /\ RejectedConfig
    /\ config.kind = "json"
    /\ Len(tableNames) > 0
    /\ \E p \in UnnamedPairs(config.indices) :
          /\ SynthesizedName(config.indices[p[1]]) # SynthesizedName(config.indices[p[2]])
          /\ \A i, j \in 1..Len(config.indices) :
                (i < j /\ config.indices[i].name = config.indices[j].name) => <<i, j>> = p
          /\ \A q \in {p[1], p[2]} :
                /\ config.indices[q].table \in Tables(db.catalog)
                /\ SeqToSet(config.indices[q].columns) \subseteq db.cols[config.indices[q].table]

---------------------------------------------------------------------------
\* the tables of the file that gpkg_contents does not list
UnlistedTables == DOMAIN db.cols \ Tables(db.catalog)

\* table T is as it was before the run: no column added, no index
Untouched(T) ==
    /\ db.cols[T] = BaseCols
    /\ \A r \in DOMAIN RowsOf(T) : DOMAIN RowsOf(T)[r] = BaseCols
    /\ \A ix \in db.idx : ix.tbl # T

\* the layers of the configuration whose table gpkg_contents does not list
UnlistedLayers ==
    IF config.kind = "json" THEN DOMAIN config.layers \ Tables(db.catalog) ELSE {}

(* C30 as stated: in OAF mode no table outside gpkg_contents is ever
   mutated *)
C30_OnlyCatalogTablesMutated ==
    serviceType = "oaf" => \A T \in UnlistedTables : Untouched(T)

(* C30 amended: in OAF mode the loop visits the tables of gpkg_contents and
   nothing else: every statement is issued in the iteration of a catalog
   table, a layer for another table gets no statement (none of its
   sql_statements is executed) and ends no run, and a table outside the
   catalog changes only by a configured statement of a catalog table's
   layer that names it *)
C30_UnlistedLayersIgnored ==
    serviceType = "oaf" =>
        /\ \A k \in 1..Len(log) :
              /\ log[k].iter \in Tables(db.catalog) \cup {""}
              /\ log[k].iter = "" => log[k].op \in {"getTableNames", "rerun"}
              /\ log[k].tbl \in UnlistedTables =>
                    log[k].op = "executeQuery" /\ log[k].iter \in Tables(db.catalog)
        /\ ~SecondRun =>
              \A T \in UnlistedTables :
                  Untouched(T) \/ \E k \in 1..Len(log) :
                                     log[k].op = "executeQuery" /\ log[k].tbl = T
        /\ pc = "fatal" =>
              /\ Len(log) > 0
              /\ \/ log[Len(log)].op = "getTableNames"
                 \/ log[Len(log)].iter \in Tables(db.catalog)
        /\ (db.catalog = <<>> /\ db.valid /\ db.conn /\ config.kind = "json") =>
              /\ pc # "fatal"
              /\ \A k \in 1..Len(log) : log[k].op \in {"getTableNames", "rerun"}

C30_Witness ==
    /\ serviceType = "oaf" /\ Succeeded /\ ~SecondRun
    /\ "ab" \in UnlistedLayers \cap UnlistedTables
    /\ Len(config.layers["ab"].sql_statements) > 0
    /\ Untouched("ab")
    /\ IterationCompleted("a")

====
